---- MODULE Spec2Model ----
(***************************************************************************)
(* The HTTP client of alistair/http (createHTTPClient): request builder,   *)
(* `before` interceptor, recursive retry engine `run`, response            *)
(* transformer.  One record per logical call; every await of the handler   *)
(* is a step of the call.                                                  *)
(* After it, the other parts of the package: the hook useAsyncFunction,    *)
(* the EventBus, atom(), StrictMap, ImmutableMap and the matcher simple(). *)
(***************************************************************************)
EXTENDS Integers, Sequences, FiniteSets, TLC

\* Retries explored per call (the engine itself has no ceiling).
MaxAttempts == 3

\* Longest base and path handed to join.
MaxLen == 3
MaxBackoff == 6

\* Calls of run() explored for one useAsyncFunction.
MaxRuns == 3

\* Longest list of listeners explored for one key of an EventBus.
MaxListeners == 3

\* ImmutableMap instances explored, the shared Empty among them.
MaxInstances == 3

VARIABLES
    rootOptions,  \* the argument createHTTPClient was called with
    options,      \* the merged CompleteOptions of the client instance
    IS_BROWSER,   \* the execution context the package was loaded in
    pkg,          \* the copy of the client in use: src/http or @lib/src/http
    calls,        \* caller id -> the state of that caller's logical call
    state,        \* useAsyncFunction: the React state {loading, result}
    isInFlight,   \* useAsyncFunction: isInFlight.current
    executing,    \* useAsyncFunction: the arguments of the executions not yet settled
    runs,         \* useAsyncFunction: what each call of run() did, in order
    bus,          \* EventBus: the copy of the class in use: "array" or "set"
    listeners,    \* EventBus: this.listeners, key -> the listeners in order
    unsubscribers,\* EventBus: the functions returned by on(), as <<key, listener>>
    subscribed,   \* EventBus: key -> who is subscribed, in the order they subscribed
    emitted,      \* EventBus: the last operation and the listener calls it made
    emitting,     \* EventBus: the emit whose for loop is running, and its place in it
    atomState,    \* atom: `state`, {initialized} or {initialized, value}
    subscriptions,\* atom: the Set of callbacks, in insertion order
    unsubscribes, \* atom: the callbacks subscribe() returned a function for
    watching,     \* atom: the callbacks subscribed and not unsubscribed since
    notified,     \* atom: the last operation, the state before it, the calls it made
    strictMap,    \* StrictMap: this.map, key -> value
    got,          \* StrictMap: the last operation, the map before it, what it returned
    instances,    \* ImmutableMap: instance -> its this.map; instance 1 is ImmutableMap.Empty
    returned,     \* ImmutableMap: the last operation, its receiver and the instance returned
    matched       \* simple: the last call, its result and the handlers it called

httpVars == <<rootOptions, options, IS_BROWSER, pkg, calls>>
hookVars == <<state, isInFlight, executing, runs>>
busVars == <<bus, listeners, unsubscribers, subscribed, emitted, emitting>>
atomVars == <<atomState, subscriptions, unsubscribes, watching, notified>>
strictVars == <<strictMap, got>>
immutableVars == <<instances, returned>>
matchVars == <<matched>>

vars == <<httpVars, hookVars, busVars, atomVars, strictVars, immutableVars, matchVars>>

\* Everything but the HTTP client, but the hook, but the bus, but the atom, ...
notHttp == <<hookVars, busVars, atomVars, strictVars, immutableVars, matchVars>>
notHook == <<httpVars, busVars, atomVars, strictVars, immutableVars, matchVars>>
notBus == <<httpVars, hookVars, atomVars, strictVars, immutableVars, matchVars>>
notAtom == <<httpVars, hookVars, busVars, strictVars, immutableVars, matchVars>>
notStrict == <<httpVars, hookVars, busVars, atomVars, immutableVars, matchVars>>
notImmutable == <<httpVars, hookVars, busVars, atomVars, strictVars, matchVars>>
notMatch == <<httpVars, hookVars, busVars, atomVars, strictVars, immutableVars>>

----------------------------------------------------------------------------
(* Values *)

Method == {"get", "post", "put", "patch", "delete", "head", "options"}

Slash == "/"

\* {} (an object with no keys)
EmptyObject == <<>>

NoHeaders == EmptyObject

\* Headers.set(name, value)
HeadersSet(headers, name, value) ==
    [h \in DOMAIN headers \cup {name} |-> IF h = name THEN value ELSE headers[h]]

\* Headers.has(name)
HeadersHas(headers, name) == name \in DOMAIN headers

\* Headers.get(name): the value, or null
HeadersGet(headers, name) == IF name \in DOMAIN headers THEN headers[name] ELSE "null"

\* Per-call bodies: a tag for the runtime shape, val for the content
\* (for an object, its JSON text).
Undefined == [tag |-> "undefined", val |-> ""]
Null == [tag |-> "null", val |-> ""]
TextBody(s) == [tag |-> "string", val |-> s]

\* JSON.stringify(body)
JSONStringify(body) ==
    CASE body.tag = "string" -> "\"" \o body.val \o "\""
      [] body.tag = "null" -> "null"
      [] body.tag = "object" -> body.val
      [] OTHER -> "{}"

NoRequest == [id |-> 0, method |-> "", url |-> <<>>, headers |-> NoHeaders, body |-> Undefined]
NoResponse == [ok |-> FALSE, status |-> 0, body |-> ""]

\* {...a, ...b}
Spread(a, b) == [k \in DOMAIN a \cup DOMAIN b |-> IF k \in DOMAIN b THEN b[k] ELSE a[k]]

----------------------------------------------------------------------------
(* utils *)

\* A join that leaves the path as it is.
join_keepsPath(base, path) ==
    LET finalBase == IF Len(base) > 0 /\ base[Len(base)] = Slash
                     THEN base ELSE base \o <<Slash>>
    IN  finalBase \o path

join(base, path) ==
    LET finalBase == IF Len(base) > 0 /\ base[Len(base)] = Slash
                     THEN base ELSE base \o <<Slash>>
        finalPath == IF Len(path) > 0 /\ path[1] = Slash
                     THEN SubSeq(path, 2, Len(path)) ELSE path
    IN finalBase \o finalPath

isBodyInit(body) ==
    body.tag \in {"string", "ReadableStream", "Blob", "FormData",
                  "URLSearchParams", "ArrayBufferView", "ArrayBuffer"}

\* isBodyInit of @lib/src/http/utils.ts: no ArrayBuffer.isView test.
isBodyInitLib(body) ==
    body.tag \in {"ReadableStream", "Blob", "FormData", "URLSearchParams",
                  "ArrayBuffer", "string"}

----------------------------------------------------------------------------
(* Errors and promise results *)

\* A constructor that keeps the request and drops the response.
HTTPClientError_dropsResponse(count, request, response) ==
    [kind |-> "HTTPClientError", count |-> count, request |-> request,
     response |-> NoResponse]

HTTPClientError(count, request, response) ==
    [kind |-> "HTTPClientError", count |-> count, request |-> request,
     response |-> response]

\* Errors that are not constructed by the client.
OtherError(kind) ==
    [kind |-> kind, count |-> 0, request |-> NoRequest, response |-> NoResponse]

SerializationError == OtherError("SerializationError")
TransportError == OtherError("TransportError")
HookError(hook) == OtherError("HookError:" \o hook)
JSONSyntaxError == OtherError("SyntaxError")

\* Runtime values handed between the client, its hooks and the transport.
Val(tag) == [tag |-> tag, req |-> NoRequest, res |-> NoResponse]
RequestVal(request) == [tag |-> "Request", req |-> request, res |-> NoResponse]
ResponseVal(response) == [tag |-> "Response", req |-> NoRequest, res |-> response]
\* What a transformer made of a response.
Parsed(by, response) == [tag |-> "parsed:" \o by, req |-> NoRequest, res |-> response]

\* How an awaited call settles.
Return(v) == [type |-> "return", value |-> v, error |-> OtherError("")]
Throw(e) == [type |-> "throw", value |-> Val("undefined"), error |-> e]

\* The promise a facade method returned to its caller.
Pending == [state |-> "pending", value |-> Val("undefined"), error |-> OtherError("")]
Fulfilled(v) == [state |-> "fulfilled", value |-> v, error |-> OtherError("")]
Rejected(e) == [state |-> "rejected", value |-> Val("undefined"), error |-> e]

----------------------------------------------------------------------------
(* The transport and the caller-supplied hooks *)

\* A hook is named by its kind; K is the threshold of a counting hook.
Hook(kind) == [kind |-> kind, K |-> 0]
RetryBelow(k) == [kind |-> "retryBelow", K |-> k]

Responses ==
    { [ok |-> TRUE, status |-> 200, body |-> "json"],
      [ok |-> TRUE, status |-> 200, body |-> "malformed"],
      [ok |-> FALSE, status |-> 404, body |-> "json"],
      [ok |-> FALSE, status |-> 429, body |-> "json"] }

\* fetch(request): a response, or a transport-level failure.
fetch(request) ==
    {Return(ResponseVal(response)) : response \in Responses} \cup {Throw(TransportError)}

\* new Request(request) followed by headers.set(name, value): a new instance.
Derive(request, id, name, value) ==
    [request EXCEPT !.id = id, !.headers = HeadersSet(request.headers, name, value)]

\* options.lifecycle.before(request): the ways the hook can settle.
\*   identity: the default; user: mutates the request in place and returns it,
\*   returns a new instance, or throws.
before(hook, request, fresh) ==
    CASE hook.kind = "identity" -> {Return(RequestVal(request))}
      [] hook.kind = "user" ->
            { Return(RequestVal([request EXCEPT !.headers =
                        HeadersSet(request.headers, "authorization", "Bearer example")])),
              Return(RequestVal(Derive(request, fresh, "x-before", "1"))),
              Throw(HookError("before")) }

\* options.lifecycle.failure(count, request, response): the ways the hook can settle.
\*   default: throws the HTTPClientError; retryBelow: returns the request while
\*   count < K and nothing afterwards; always: returns the request;
\*   user: any of the documented outcomes, or a value that is not a Request;
\*   any: resolves to the request or to a value that is not a Request, falsy
\*   (undefined, null, false) or truthy (an object, the response);
\*   example: the hook of the example client: the request on a 429, nothing
\*   once count >= 5, the request otherwise.
failure(hook, count, request, response, fresh) ==
    CASE hook.kind = "default" -> {Throw(HTTPClientError(count, request, response))}
      [] hook.kind = "example" ->
            IF response.status = 429 THEN {Return(RequestVal(request))}
            ELSE IF count >= 5 THEN {Return(Val("undefined"))}
            ELSE {Return(RequestVal(request))}
      [] hook.kind = "retryBelow" ->
            IF count >= hook.K THEN {Return(Val("undefined"))}
            ELSE {Return(RequestVal(request))}
      [] hook.kind = "always" -> {Return(RequestVal(request))}
      [] hook.kind = "user" ->
            { Return(RequestVal(request)),
              Return(RequestVal(Derive(request, fresh, "x-retry", "1"))),
              Return(Val("undefined")),
              Return(Val("null")),
              Return(Val("object")),
              Throw(HookError("failure")) }
      [] hook.kind = "any" ->
            { Return(RequestVal(request)),
              Return(Val("undefined")),
              Return(Val("null")),
              Return(Val("false")),
              Return(Val("object")),
              Return(ResponseVal(response)) }

\* The seconds the failure hook sleeps before it settles: the example hook
\* waits 60 s on a 429 without X-Retry-After, and Math.pow(2, count) s before
\* a retry; the other hooks do not wait.
sleep(hook, count, response) ==
    IF hook.kind # "example" THEN 0
    ELSE IF response.status = 429 THEN 60
    ELSE IF count >= 5 THEN 0
    ELSE 2^count

\* options.transform(response): the default decodes the body as JSON.
transform(hook, response) ==
    CASE hook.kind = "json" ->
            IF response.body = "json" THEN {Return(Parsed("json", response))}
            ELSE {Throw(JSONSyntaxError)}
      [] hook.kind = "user" ->
            {Return(Parsed("user", response)), Throw(HookError("transform"))}

\* A test for a truthy value.
InstanceofRequest_truthy(v) == v.tag \notin {"undefined", "null", "false"}

\* Line 172 (line 68 of @lib/src/http/client.ts): failure instanceof Request
InstanceofRequest(v) == v.tag = "Request"

----------------------------------------------------------------------------
(* createHTTPClient *)

\* Defaults that retry.
defaultLifecycle_retries == [before |-> Hook("identity"), failure |-> Hook("always")]

defaultLifecycle == [before |-> Hook("identity"), failure |-> Hook("default")]

\* A caller's lifecycle replaces the defaults as a whole.
createHTTPClient_replacesLifecycle(root) ==
    Spread(Spread([transform |-> Hook("json")], root),
           [lifecycle |-> IF "lifecycle" \in DOMAIN root
                          THEN root.lifecycle ELSE defaultLifecycle])

createHTTPClient(root) ==
    Spread(Spread([transform |-> Hook("json")], root),
           [lifecycle |-> Spread(defaultLifecycle,
                                 IF "lifecycle" \in DOMAIN root
                                 THEN root.lifecycle ELSE EmptyObject)])

\* `alistair-http/${version}`
UserAgent == "alistair-http/1.15.0"

----------------------------------------------------------------------------
(* One logical call *)

\* What a call has done so far, in order: hook invocations, sends, and how
\* each of them settled.
Event(ev, count, request, response, result) ==
    [ev |-> ev, count |-> count, req |-> request, res |-> response, result |-> result]

NoResult == Return(Val("undefined"))

\* The arguments a facade method was called with.
Args(method, path, config) == [method |-> method, path |-> path, config |-> config]

Config(body, headers, init) == [body |-> body, headers |-> headers, init |-> init]

IdleCall ==
    [pc |-> "idle", args |-> Args("", <<>>, Config(Undefined, NoHeaders, EmptyObject)),
     count |-> 0, request |-> NoRequest, response |-> NoResponse,
     promise |-> Pending, log |-> <<>>]

\* The places of the log where `ev` happened, and how many there are.
Positions(call, ev) == {i \in 1..Len(call.log) : call.log[i].ev = ev}
Times(call, ev) == Cardinality(Positions(call, ev))
Sends(call) == Times(call, "send")

Logged(call, event) == [call EXCEPT !.log = Append(@, event)]

\* An error leaves the handler: the promise given to the caller rejects.
reject(call, error) == [call EXCEPT !.pc = "done", !.promise = Rejected(error)]

\* A default User-Agent that replaces the caller's.
withUserAgent_overrides(headers) ==
    IF ~IS_BROWSER THEN HeadersSet(headers, "user-agent", UserAgent) ELSE headers

\* Lines 197-199: the default User-Agent, outside a browser and unless set.
withUserAgent(headers) ==
    IF ~IS_BROWSER /\ ~HeadersHas(headers, "user-agent")
    THEN HeadersSet(headers, "user-agent", UserAgent)
    ELSE headers

\* Only a body without a Content-Type is JSON-encoded.
sendsJSON_onlyDefault(setContentType) == setContentType = "null"

\* Line 208: the body is to be JSON-encoded.
sendsJSON(setContentType) ==
    setContentType = "null" \/ setContentType = "application/json"

\* Any body is passed on.
passesBody_any(userBody) == TRUE

\* Line 214 (line 110 of @lib/src/http/client.ts): the body is passed on as it is.
passesBody(userBody) ==
    IF pkg = "@lib" THEN isBodyInitLib(userBody)
    ELSE userBody = Null \/ isBodyInit(userBody)

\* The Content-Type is left as the caller gave it.
withContentType_keeps(headers, userBody) == headers

\* Lines 206-211: the headers after the body was looked at.
withContentType(headers, userBody) ==
    IF userBody # Undefined /\ HeadersGet(headers, "content-type") = "null"
    THEN HeadersSet(headers, "content-type", "application/json")
    ELSE headers

\* Every body is JSON-encoded.
initBody_alwaysJSON(userBody, setContentType) == TextBody(JSONStringify(userBody))

\* Lines 213-215: init.body.
initBody(userBody, setContentType) ==
    IF sendsJSON(setContentType) THEN TextBody(JSONStringify(userBody)) ELSE userBody

\* The per-call configuration is spread last.
requestInit_configLast(userInit, headers, method) ==
    Spread([headers |-> headers, method |-> method], userInit)

\* Lines 191-195: {...userInit, headers, method}
requestInit(userInit, headers, method) ==
    Spread(userInit, [headers |-> headers, method |-> method])

\* Lines 187-223: the request the handler builds, or the error it throws.
buildRequest(method, path, config) ==
    LET userBody == config.body
        userInit == config.init
        headers1 == withUserAgent(config.headers)
        setContentType == HeadersGet(headers1, "content-type")
        headers == withContentType(headers1, userBody)
        init0 == requestInit(userInit, headers, method)
        init == IF userBody = Undefined THEN init0
                ELSE Spread(init0, [body |-> initBody(userBody, setContentType)])
    IN  IF userBody # Undefined /\ ~sendsJSON(setContentType) /\ ~passesBody(userBody)
        THEN Throw(SerializationError)
        ELSE Return(RequestVal(
                [id |-> 1, method |-> init.method, url |-> join(options.base, path),
                 headers |-> init.headers,
                 body |-> IF "body" \in DOMAIN init THEN init.body ELSE Undefined]))

\* A run that passes a retried request through `before` again.
run_callsBefore(call, count, request) ==
    LET c1 == IF count > 1
              THEN Logged(call, Event("before", 0, request, NoResponse, NoResult))
              ELSE call
    IN  Logged([c1 EXCEPT !.pc = "fetch", !.count = count, !.request = request],
               Event("send", count, request, NoResponse, NoResult))

\* A run whose attempt counter is kept on the client, one for all calls.
run_sharedCount(call, count, request) ==
    LET shared == 1 + Cardinality({<<c, i>> \in (DOMAIN calls) \X (1..(2 * MaxAttempts)) :
                                     i <= Len(calls[c].log) /\ calls[c].log[i].ev = "send"})
    IN  Logged([call EXCEPT !.pc = "fetch", !.count = shared, !.request = request],
               Event("send", shared, request, NoResponse, NoResult))

\* run(count, request): fetch(request) is issued and awaited.
run(call, count, request) ==
    Logged([call EXCEPT !.pc = "fetch", !.count = count, !.request = request],
           Event("send", count, request, NoResponse, NoResult))

\* Line 223: options.lifecycle.before(new Request(...)) is called and awaited.
callBefore(call, request) ==
    Logged([call EXCEPT !.pc = "before", !.request = request],
           Event("before", 0, request, NoResponse, NoResult))

\* The first run numbered 0.
afterBefore_countsFromZero(call, result) ==
    LET c1 == Logged(call, Event("before.settled", 0, call.request, NoResponse, result))
    IN  IF result.type = "throw" THEN reject(c1, result.error)
        ELSE run(c1, 0, result.value.req)

\* Line 224: `before` settled; on a request, run(1, request).
afterBefore(call, result) ==
    LET c1 == Logged(call, Event("before.settled", 0, call.request, NoResponse, result))
    IN  IF result.type = "throw" THEN reject(c1, result.error)
        ELSE run(c1, 1, result.value.req)

\* The failure hook called without being awaited: the request is sent again at once.
callFailure_resends(call, response) ==
    Logged(Logged([call EXCEPT !.pc = "failure", !.response = response],
                  Event("failure", call.count, call.request, response, NoResult)),
           Event("send", call.count + 1, call.request, NoResponse, NoResult))

\* Line 170: options.lifecycle.failure(count, request, response) is called and awaited.
callFailure(call, response) ==
    Logged([call EXCEPT !.pc = "failure", !.response = response],
           Event("failure", call.count, call.request, response, NoResult))

\* Line 226: options.transform(response) is called and awaited.
callTransform(call, response) ==
    Logged([call EXCEPT !.pc = "transform", !.response = response],
           Event("transform", call.count, call.request, response, NoResult))

\* The ok test inverted.
afterFetch_inverted(call, result) ==
    LET c1 == Logged(call, Event("send.settled", call.count, call.request,
                                 result.value.res, result))
    IN  IF result.type = "throw" THEN reject(c1, result.error)
        ELSE IF result.value.res.ok THEN callFailure(c1, result.value.res)
        ELSE callTransform(c1, result.value.res)

\* fetch wrapped in a catch that hands a transport failure to the failure hook.
afterFetch_catches(call, result) ==
    LET c1 == Logged(call, Event("send.settled", call.count, call.request,
                                 result.value.res, result))
    IN  IF result.type = "throw" THEN callFailure(c1, NoResponse)
        ELSE IF ~result.value.res.ok THEN callFailure(c1, result.value.res)
        ELSE callTransform(c1, result.value.res)

\* Every response goes to the transformer.
afterFetch_ignoresOk(call, result) ==
    LET c1 == Logged(call, Event("send.settled", call.count, call.request,
                                 result.value.res, result))
    IN  IF result.type = "throw" THEN reject(c1, result.error)
        ELSE callTransform(c1, result.value.res)

\* A transport failure reported as an HTTPClientError.
afterFetch_wrapsTransport(call, result) ==
    LET c1 == Logged(call, Event("send.settled", call.count, call.request,
                                 result.value.res, result))
    IN  IF result.type = "throw"
        THEN reject(c1, HTTPClientError(call.count, call.request, NoResponse))
        ELSE IF ~result.value.res.ok THEN callFailure(c1, result.value.res)
        ELSE callTransform(c1, result.value.res)

\* Lines 167-179: fetch settled.
afterFetch(call, result) ==
    LET c1 == Logged(call, Event("send.settled", call.count, call.request,
                                 result.value.res, result))
    IN  IF result.type = "throw" THEN reject(c1, result.error)
        ELSE IF ~result.value.res.ok THEN callFailure(c1, result.value.res)
        ELSE callTransform(c1, result.value.res)

\* A retry that passes count on unchanged.
afterFailure_sameCount(call, result) ==
    LET c1 == Logged(call, Event("failure.settled", call.count, call.request,
                                 call.response, result))
    IN  IF result.type = "throw" THEN reject(c1, result.error)
        ELSE IF InstanceofRequest(result.value)
             THEN run(c1, call.count, result.value.req)
             ELSE reject(c1, HTTPClientError(call.count, call.request, call.response))

\* A decline that reports the number of the attempt that was not made.
afterFailure_nextCount(call, result) ==
    LET c1 == Logged(call, Event("failure.settled", call.count, call.request,
                                 call.response, result))
    IN  IF result.type = "throw" THEN reject(c1, result.error)
        ELSE IF InstanceofRequest(result.value)
             THEN run(c1, call.count + 1, result.value.req)
             ELSE reject(c1, HTTPClientError(call.count + 1, call.request, call.response))

\* A decline that returns the failed response instead of throwing.
afterFailure_returnsResponse(call, result) ==
    LET c1 == Logged(call, Event("failure.settled", call.count, call.request,
                                 call.response, result))
    IN  IF result.type = "throw" THEN reject(c1, result.error)
        ELSE IF InstanceofRequest(result.value)
             THEN run(c1, call.count + 1, result.value.req)
             ELSE callTransform(c1, call.response)

\* A hook's throw caught and wrapped in the client's own error.
afterFailure_wraps(call, result) ==
    LET c1 == Logged(call, Event("failure.settled", call.count, call.request,
                                 call.response, result))
    IN  IF result.type = "throw" \/ ~InstanceofRequest(result.value)
        THEN reject(c1, HTTPClientError(call.count, call.request, call.response))
        ELSE run(c1, call.count + 1, result.value.req)

\* An engine with a retry ceiling of its own.
afterFailure_ceiling(call, result) ==
    LET c1 == Logged(call, Event("failure.settled", call.count, call.request,
                                 call.response, result))
    IN  IF result.type = "throw" THEN reject(c1, result.error)
        ELSE IF InstanceofRequest(result.value) /\ call.count < 2
             THEN run(c1, call.count + 1, result.value.req)
             ELSE reject(c1, HTTPClientError(call.count, call.request, call.response))

\* A retry that sends the request of the failed attempt again.
afterFailure_resendsSame(call, result) ==
    LET c1 == Logged(call, Event("failure.settled", call.count, call.request,
                                 call.response, result))
    IN  IF result.type = "throw" THEN reject(c1, result.error)
        ELSE IF InstanceofRequest(result.value)
             THEN run(c1, call.count + 1, call.request)
             ELSE reject(c1, HTTPClientError(call.count, call.request, call.response))

\* A decline that is retried with the same request.
afterFailure_retriesDecline(call, result) ==
    LET c1 == Logged(call, Event("failure.settled", call.count, call.request,
                                 call.response, result))
    IN  IF result.type = "throw" THEN reject(c1, result.error)
        ELSE IF InstanceofRequest(result.value)
             THEN run(c1, call.count + 1, result.value.req)
             ELSE run(c1, call.count + 1, call.request)

\* A retry that skips a count.
afterFailure_skipsCount(call, result) ==
    LET c1 == Logged(call, Event("failure.settled", call.count, call.request,
                                 call.response, result))
    IN  IF result.type = "throw" THEN reject(c1, result.error)
        ELSE IF InstanceofRequest(result.value)
             THEN run(c1, call.count + 2, result.value.req)
             ELSE reject(c1, HTTPClientError(call.count, call.request, call.response))

\* Lines 170-176: the failure hook settled.
afterFailure(call, result) ==
    LET c1 == Logged(call, Event("failure.settled", call.count, call.request,
                                 call.response, result))
    IN  IF result.type = "throw" THEN reject(c1, result.error)
        ELSE IF InstanceofRequest(result.value)
             THEN run(c1, call.count + 1, result.value.req)
             ELSE reject(c1, HTTPClientError(call.count, call.request, call.response))

\* A transformer failure handed to the retry policy.
afterTransform_retries(call, result) ==
    LET c1 == Logged(call, Event("transform.settled", call.count, call.request,
                                 call.response, result))
    IN  IF result.type = "throw" THEN callFailure(c1, call.response)
        ELSE [c1 EXCEPT !.pc = "done", !.promise = Fulfilled(result.value)]

\* Lines 226-228: the transformer settled.
afterTransform(call, result) ==
    LET c1 == Logged(call, Event("transform.settled", call.count, call.request,
                                 call.response, result))
    IN  IF result.type = "throw" THEN reject(c1, result.error)
        ELSE [c1 EXCEPT !.pc = "done", !.promise = Fulfilled(result.value)]

\* The id a Request constructed by a hook at this point of the call gets.
Fresh(call) == Len(call.log) + 1

----------------------------------------------------------------------------
(* Actions *)

\* A caller invokes client[method](path, config).
handler(c, method, path, config) ==
    /\ calls[c].pc = "idle"
    /\ LET built == buildRequest(method, path, config)
           call == [calls[c] EXCEPT !.args = Args(method, path, config)]
       IN  calls' = [calls EXCEPT ![c] =
                        IF built.type = "throw" THEN reject(call, built.error)
                        ELSE callBefore(call, built.value.req)]
    /\ UNCHANGED <<rootOptions, options, IS_BROWSER, pkg, notHttp>>

BeforeSettles(c) ==
    /\ calls[c].pc = "before"
    /\ \E result \in before(options.lifecycle.before, calls[c].request, Fresh(calls[c])) :
          calls' = [calls EXCEPT ![c] = afterBefore(@, result)]
    /\ UNCHANGED <<rootOptions, options, IS_BROWSER, pkg, notHttp>>

FetchSettles(c) ==
    /\ calls[c].pc = "fetch"
    /\ \E result \in fetch(calls[c].request) :
          calls' = [calls EXCEPT ![c] = afterFetch(@, result)]
    /\ UNCHANGED <<rootOptions, options, IS_BROWSER, pkg, notHttp>>

\* The number of sends the exploration of a call stops at.
AttemptCap ==
    IF options.lifecycle.failure.kind = "example" THEN MaxBackoff ELSE MaxAttempts

FailureSettles(c) ==
    /\ calls[c].pc = "failure"
    /\ \E result \in failure(options.lifecycle.failure, calls[c].count,
                             calls[c].request, calls[c].response, Fresh(calls[c])) :
          /\ Sends(afterFailure(calls[c], result)) <= AttemptCap
          /\ calls' = [calls EXCEPT ![c] = afterFailure(@, result)]
    /\ UNCHANGED <<rootOptions, options, IS_BROWSER, pkg, notHttp>>

TransformSettles(c) ==
    /\ calls[c].pc = "transform"
    /\ \E result \in transform(options.transform, calls[c].response) :
          calls' = [calls EXCEPT ![c] = afterTransform(@, result)]
    /\ UNCHANGED <<rootOptions, options, IS_BROWSER, pkg, notHttp>>

----------------------------------------------------------------------------
(* useAsyncFunction(execute) *)

\* UseAsyncFunctionState['result']
Initial == [type |-> "initial", data |-> 0, error |-> ""]
Success(data) == [type |-> "success", data |-> data, error |-> ""]
Failed(error) == [type |-> "error", data |-> 0, error |-> error]

\* The arguments run is called with, and how execute(args) can settle.
RunArgs == {1, 2}
execute(args) == {Success(args), Failed("rejected")}

\* What a call of run() did: threw at once, or began an execution.
Ran(args, began, pending) == [args |-> args, began |-> began, pending |-> pending]

\* The first render: useState(...) and useRef(false).
useAsyncFunction ==
    /\ state = [loading |-> FALSE, result |-> Initial]
    /\ isInFlight = FALSE
    /\ executing = <<>>
    /\ runs = <<>>

\* run(...args), up to its await: throws while in flight; otherwise sets
\* loading and the flag and calls execute(...args).
run_hook(args) ==
    /\ Len(runs) < MaxRuns
    /\ IF isInFlight
       THEN /\ runs' = Append(runs, Ran(args, FALSE, Len(executing)))
            /\ UNCHANGED <<state, isInFlight, executing>>
       ELSE /\ state' = [state EXCEPT !.loading = TRUE]
            /\ isInFlight' = TRUE
            /\ executing' = Append(executing, args)
            /\ runs' = Append(runs, Ran(args, TRUE, Len(executing)))
    /\ UNCHANGED notHook

\* The rest of run once execute settled: the state is set from the result,
\* and the finally clause clears the flag.
settle(i, result) ==
    /\ state' = [loading |-> FALSE, result |-> result]
    /\ isInFlight' = FALSE
    /\ executing' = SubSeq(executing, 1, i - 1) \o SubSeq(executing, i + 1, Len(executing))
    /\ UNCHANGED <<runs, notHook>>

\* reset()
reset ==
    /\ state' = [loading |-> FALSE, result |-> Initial]
    /\ UNCHANGED <<isInFlight, executing, runs, notHook>>

RunCalled == \E args \in RunArgs : run_hook(args)
ExecuteSettled ==
    \E i \in DOMAIN executing : \E result \in execute(executing[i]) : settle(i, result)
ResetCalled == reset

----------------------------------------------------------------------------
(* EventBus *)

Keys == {"userJoined", "userLeft"}
Listeners == {"l1", "l2"}
Payloads == {1, 2}

\* A sequence without the items equal to x, and without its repetitions.
Without(seq, x) == SelectSeq(seq, LAMBDA item : item # x)
RECURSIVE Distinct(_)
Distinct(seq) ==
    IF seq = <<>> THEN <<>>
    ELSE LET front == Distinct(SubSeq(seq, 1, Len(seq) - 1))
             x == seq[Len(seq)]
         IN  IF \E i \in DOMAIN front : front[i] = x THEN front ELSE Append(front, x)
Has(seq, x) == \E i \in DOMAIN seq : seq[i] = x

\* Map.get(key) ?? [], Map.set(key, list), Map.delete(key)
ListOf(map, key) == IF key \in DOMAIN map THEN map[key] ELSE <<>>
MapSet(map, key, list) == [k \in DOMAIN map \cup {key} |-> IF k = key THEN list ELSE map[k]]
MapDelete(map, key) == [k \in DOMAIN map \ {key} |-> map[k]]

\* this.listeners after on(key, listener): the array copy appends, the set
\* copy adds (an item already in a Set keeps its place).
on(map, key, listener) ==
    IF bus = "array" THEN MapSet(map, key, Append(ListOf(map, key), listener))
    ELSE IF Has(ListOf(map, key), listener) THEN MapSet(map, key, ListOf(map, key))
    ELSE MapSet(map, key, Append(ListOf(map, key), listener))

\* An off that takes out the first occurrence only.
off_first(map, key, listener) ==
    IF key \notin DOMAIN map \/ ~Has(map[key], listener) THEN map
    ELSE LET i == CHOOSE j \in DOMAIN map[key] :
                     map[key][j] = listener /\ \A h \in 1..(j - 1) : map[key][h] # listener
             filtered == SubSeq(map[key], 1, i - 1) \o SubSeq(map[key], i + 1, Len(map[key]))
         IN  IF filtered = <<>> THEN MapDelete(map, key) ELSE MapSet(map, key, filtered)

\* An off that leaves the key of an emptied list in the map.
off_keepsKey(map, key, listener) ==
    IF key \notin DOMAIN map THEN map
    ELSE IF bus = "array" /\ ~Has(map[key], listener) THEN map
    ELSE MapSet(map, key, Without(map[key], listener))

\* this.listeners after off(key, listener).
off(map, key, listener) ==
    IF key \notin DOMAIN map THEN map
    ELSE IF bus = "array" /\ ~Has(map[key], listener) THEN map
    ELSE LET filtered == Without(map[key], listener)
         IN  IF filtered = <<>> THEN MapDelete(map, key) ELSE MapSet(map, key, filtered)

\* The calls emit(key, ...args) makes, in order.
emit(map, key, args) ==
    IF key \notin DOMAIN map THEN <<>>
    ELSE [i \in DOMAIN map[key] |-> [listener |-> map[key][i], args |-> args]]

Op(op, key, listener, args, made) ==
    [op |-> op, key |-> key, listener |-> listener, args |-> args, made |-> made]

\* No emit is running / the for loop of emit(key, ...args) is at place i of
\* `list`: the array read when emit was entered (the array copy), or the Set
\* of the key as it is now (the set copy, where `list` is not used).
NotEmitting == [active |-> FALSE, key |-> "", args |-> 0, list |-> <<>>, i |-> 0]
Emitting(key, args, list, i) ==
    [active |-> TRUE, key |-> key, args |-> args, list |-> list, i |-> i]

\* What the for loop of the running emit iterates over.
Iterated(map) ==
    IF bus = "array" THEN emitting.list ELSE ListOf(map, emitting.key)

\* What a listener does when it is called: nothing to the bus, or one call of
\* off (also through a function on() returned) or of on, for itself or another.
ListenerBodies ==
    {[do |-> "nothing", key |-> "", listener |-> ""]} \cup
    {[do |-> d, key |-> k, listener |-> l] : d \in {"off", "on"}, k \in Keys, l \in Listeners}

\* this.listeners and who is subscribed, after the body of a listener ran.
Ran_listeners(map, body) ==
    CASE body.do = "off" -> off(map, body.key, body.listener)
      [] body.do = "on" -> on(map, body.key, body.listener)
      [] OTHER -> map

Ran_subscribed(who, body) ==
    CASE body.do = "off" -> [who EXCEPT ![body.key] = Without(@, body.listener)]
      [] body.do = "on" -> [who EXCEPT ![body.key] =
                               IF Has(@, body.listener) THEN @ ELSE Append(@, body.listener)]
      [] OTHER -> who

\* The place the for loop goes on from after the listener at place i ran `body`:
\* an item deleted from the Set at or before i moves the later ones up.
NextPlace(map, body) ==
    LET i == emitting.i
        list == Iterated(map)
    IN  IF /\ bus = "set" /\ body.do = "off" /\ body.key = emitting.key
           /\ \E p \in 1..i : list[p] = body.listener
        THEN i
        ELSE i + 1

\* new EventBus()
EventBus ==
    /\ listeners = <<>>
    /\ unsubscribers = {}
    /\ subscribed = [k \in Keys |-> <<>>]
    /\ emitted = Op("new", "", "", 0, <<>>)
    /\ emitting = NotEmitting

OnCalled ==
    \E key \in Keys, listener \in Listeners :
        /\ ~emitting.active
        /\ Len(ListOf(listeners, key)) < MaxListeners
        /\ listeners' = on(listeners, key, listener)
        /\ unsubscribers' = unsubscribers \cup {<<key, listener>>}
        /\ subscribed' = [subscribed EXCEPT ![key] =
                             IF Has(@, listener) THEN @ ELSE Append(@, listener)]
        /\ emitted' = Op("on", key, listener, 0, <<>>)
        /\ UNCHANGED <<bus, emitting, notBus>>

OffCalled ==
    \E key \in Keys, listener \in Listeners :
        /\ ~emitting.active
        /\ listeners' = off(listeners, key, listener)
        /\ subscribed' = [subscribed EXCEPT ![key] = Without(@, listener)]
        /\ emitted' = Op("off", key, listener, 0, <<>>)
        /\ UNCHANGED <<bus, unsubscribers, emitting, notBus>>

\* A function returned by on() is called: this.off(key, listener).
UnsubscribeCalled ==
    \E u \in unsubscribers :
        /\ ~emitting.active
        /\ listeners' = off(listeners, u[1], u[2])
        /\ subscribed' = [subscribed EXCEPT ![u[1]] = Without(@, u[2])]
        /\ emitted' = Op("unsubscribe", u[1], u[2], 0, <<>>)
        /\ UNCHANGED <<bus, unsubscribers, emitting, notBus>>

EmitCalled ==
    \E key \in Keys, args \in Payloads :
        /\ ~emitting.active
        /\ emitted' = Op("emit", key, "", args, emit(listeners, key, args))
        /\ UNCHANGED <<bus, listeners, unsubscribers, subscribed, emitting, notBus>>

\* emit(key, ...args) with listeners that use the bus: emit is entered and
\* reads the listeners of the key; with none it returns.
EmitEntered ==
    \E key \in Keys, args \in Payloads :
        /\ ~emitting.active
        /\ emitting' = IF key \in DOMAIN listeners
                       THEN Emitting(key, args, IF bus = "array" THEN listeners[key] ELSE <<>>, 1)
                       ELSE NotEmitting
        /\ emitted' = Op("emit enters", key, "", args, <<>>)
        /\ UNCHANGED <<bus, listeners, unsubscribers, subscribed, notBus>>

\* One turn of the for loop: the listener at the place of the loop is called
\* and runs its body; after the last one emit returns.
ListenerCalled ==
    \E body \in ListenerBodies :
        LET listener == Iterated(listeners)[emitting.i]
            map == Ran_listeners(listeners, body)
            place == NextPlace(listeners, body)
            list == IF bus = "array" THEN emitting.list ELSE ListOf(map, emitting.key)
        IN  /\ emitting.active
            /\ body.do = "on" => Len(ListOf(listeners, body.key)) < MaxListeners
            /\ listeners' = map
            /\ subscribed' = Ran_subscribed(subscribed, body)
            /\ unsubscribers' = IF body.do = "on"
                                THEN unsubscribers \cup {<<body.key, body.listener>>}
                                ELSE unsubscribers
            /\ emitting' = IF place <= Len(list) THEN [emitting EXCEPT !.i = place]
                           ELSE NotEmitting
            /\ emitted' = Op("listener", emitting.key, listener, emitting.args,
                             <<[do |-> body.do, key |-> body.key, listener |-> body.listener]>>)
            /\ UNCHANGED <<bus, notBus>>

----------------------------------------------------------------------------
(* atom(initialValue) *)

\* Numbers an atom holds, by name: +0, -0, NaN and 1.
AtomValues == {"0", "-0", "NaN", "1"}
Callbacks == {"f", "g"}

\* a === b
StrictEquals(a, b) ==
    IF a = "NaN" \/ b = "NaN" THEN FALSE
    ELSE IF {a, b} \subseteq {"0", "-0"} THEN TRUE
    ELSE a = b

\* Object.is(a, b): the same value, NaN being itself and -0 not being +0.
ObjectIs(a, b) == a = b

\* SetStateAction<T>: a value, or a function of the current value.
Value(v) == [function |-> "", value |-> v]
Updater(f) == [function |-> f, value |-> "0"]
Nexts == {Value(v) : v \in AtomValues} \cup {Updater(f) : f \in {"same", "negate"}}

\* next instanceof Function ? next(current) : next
Resolved(next, current) ==
    CASE next.function = "" -> next.value
      [] next.function = "same" -> current
      [] next.function = "negate" ->
            CASE current = "0" -> "-0"
              [] current = "-0" -> "0"
              [] current = "1" -> "NaN"
              [] current = "NaN" -> "NaN"
              [] OTHER -> "NaN"

Uninitialized == [initialized |-> FALSE, value |-> "undefined"]
Initialized(v) == [initialized |-> TRUE, value |-> v]

AtomOp(op, next, old, made) ==
    [op |-> op, next |-> next, before |-> old, made |-> made]

\* notify(value): each callback of the Set, in insertion order.
notify(value) == [i \in DOMAIN subscriptions |-> [callback |-> subscriptions[i], value |-> value]]

\* atom(initialValue) for the given initial values, undefined among them.
atomOver(initialValues) ==
    /\ atomState \in {Uninitialized} \cup {Initialized(v) : v \in initialValues}
    /\ subscriptions = <<>>
    /\ unsubscribes = {}
    /\ watching = {}
    /\ notified = AtomOp("atom", Value("0"), atomState, <<>>)

\* A get that reads the value of an uninitialized atom as undefined.
get_undefined ==
    [type |-> "return", value |-> atomState.value, error |-> ""]

\* get(): the value, or the error thrown for an uninitialized atom.
get ==
    IF ~atomState.initialized
    THEN [type |-> "throw", value |-> "undefined",
          error |-> "Cannot read an atom that is uninitialized"]
    ELSE [type |-> "return", value |-> atomState.value, error |-> ""]

\* A set that compares with ===.
set_strictEquals(next) ==
    /\ IF get.type = "throw"
       THEN /\ notified' = AtomOp("set throws", next, atomState, <<>>)
            /\ UNCHANGED atomState
       ELSE LET current == atomState.value
                resolved == Resolved(next, current)
            IN  IF StrictEquals(resolved, current)
                THEN /\ notified' = AtomOp("set", next, atomState, <<>>)
                     /\ UNCHANGED atomState
                ELSE /\ atomState' = Initialized(resolved)
                     /\ notified' = AtomOp("set", next, atomState, notify(resolved))
    /\ UNCHANGED <<subscriptions, unsubscribes, watching, notAtom>>

\* set(next): get() throws on an uninitialized atom; a value that is the
\* current one is dropped; another one is stored and notified.
set(next) ==
    /\ IF get.type = "throw"
       THEN /\ notified' = AtomOp("set throws", next, atomState, <<>>)
            /\ UNCHANGED atomState
       ELSE LET current == get.value
                resolved == Resolved(next, current)
            IN  IF ObjectIs(resolved, current)
                THEN /\ notified' = AtomOp("set", next, atomState, <<>>)
                     /\ UNCHANGED atomState
                ELSE /\ atomState' = Initialized(resolved)
                     /\ notified' = AtomOp("set", next, atomState, notify(resolved))
    /\ UNCHANGED <<subscriptions, unsubscribes, watching, notAtom>>

\* subscribe(callback): subscriptions.add(callback), and a function is returned.
subscribe(callback) ==
    /\ subscriptions' = IF Has(subscriptions, callback) THEN subscriptions
                        ELSE Append(subscriptions, callback)
    /\ unsubscribes' = unsubscribes \cup {callback}
    /\ watching' = watching \cup {callback}
    /\ notified' = AtomOp("subscribe", Value("0"), atomState, <<>>)
    /\ UNCHANGED <<atomState, notAtom>>

\* The function subscribe(callback) returned: subscriptions.delete(callback).
unsubscribe(callback) ==
    /\ callback \in unsubscribes
    /\ subscriptions' = Without(subscriptions, callback)
    /\ watching' = watching \ {callback}
    /\ notified' = AtomOp("unsubscribe", Value("0"), atomState, <<>>)
    /\ UNCHANGED <<atomState, unsubscribes, notAtom>>

\* A caller reads the atom: what get() returned or threw is kept as `next`.
GetCalled ==
    /\ notified' = AtomOp(IF get.type = "throw" THEN "get throws" ELSE "get",
                          Value(IF get.type = "throw" THEN get.error ELSE get.value),
                          atomState, <<>>)
    /\ UNCHANGED <<atomState, subscriptions, unsubscribes, watching, notAtom>>

SetCalled == \E next \in Nexts : set(next)
SubscribeCalled == \E callback \in Callbacks : subscribe(callback)
UnsubscribeRun == \E callback \in Callbacks : unsubscribe(callback)

----------------------------------------------------------------------------
(* StrictMap *)

StrictKeys == {"key", "count"}
\* What a StrictMap<K, V | null | undefined> holds, and what a factory makes.
StrictValues == {"undefined", "null", "42", "100"}

\* Map.get(key): undefined for a missing key
MapGet(map, key) == IF key \in DOMAIN map THEN map[key] ELSE "undefined"

Got(op, key, or, old, value, called) ==
    [op |-> op, key |-> key, or |-> or, before |-> old, value |-> value,
     called |-> called]

\* new StrictMap()
StrictMap ==
    /\ strictMap = <<>>
    /\ got = Got("new", "", "undefined", <<>>, "undefined", FALSE)

\* set(key, value)
StrictMapSet ==
    \E key \in StrictKeys, value \in StrictValues :
        /\ strictMap' = MapSet(strictMap, key, value)
        /\ got' = Got("set", key, "undefined", strictMap, "undefined", FALSE)
        /\ UNCHANGED notStrict

\* delete(key)
StrictMapDelete ==
    \E key \in StrictKeys :
        /\ strictMap' = MapDelete(strictMap, key)
        /\ got' = Got("delete", key, "undefined", strictMap, "undefined", FALSE)
        /\ UNCHANGED notStrict

\* getOr(key, or), `or` making the value `made`.
getOr(key, made) ==
    LET value == MapGet(strictMap, key)
    IN  /\ IF value # "undefined"
           THEN /\ got' = Got("getOr", key, made, strictMap, value, FALSE)
                /\ UNCHANGED strictMap
           ELSE /\ strictMap' = MapSet(strictMap, key, made)
                /\ got' = Got("getOr", key, made, strictMap, made, TRUE)
        /\ UNCHANGED notStrict

\* getElse(key, or): value ?? or()
getElse(key, made) ==
    LET value == MapGet(strictMap, key)
    IN  /\ IF value \notin {"undefined", "null"}
           THEN got' = Got("getElse", key, made, strictMap, value, FALSE)
           ELSE got' = Got("getElse", key, made, strictMap, made, TRUE)
        /\ UNCHANGED <<strictMap, notStrict>>

GetOrCalled == \E key \in StrictKeys, made \in StrictValues : getOr(key, made)
GetElseCalled == \E key \in StrictKeys, made \in StrictValues : getElse(key, made)

----------------------------------------------------------------------------
(* ImmutableMap *)

ImmutableKeys == {"a", "b"}
ImmutableValues == {1, 2}
Contents == UNION {[D -> ImmutableValues] : D \in SUBSET ImmutableKeys}

\* ImmutableMap.Empty, the first instance there is.
Empty == 1

Returned(op, receiver, key, value, old, instance) ==
    [op |-> op, receiver |-> receiver, key |-> key, value |-> value, before |-> old,
     instance |-> instance]

\* The class is loaded: static Empty = new ImmutableMap().
ImmutableMap ==
    /\ instances = <<<<>>>>
    /\ returned = Returned("static", Empty, "", 0, <<<<>>>>, Empty)

\* A mutate that changes the receiver's own map and returns the receiver.
mutate_inPlace(this, map) ==
    [instances |-> [instances EXCEPT ![this] = map], instance |-> this]

\* mutate(fn): a clone of the receiver is made, fn changes the clone's map to
\* `map`, and the clone is returned.
mutate(this, map) ==
    [instances |-> Append(instances, map), instance |-> Len(instances) + 1]

\* new ImmutableMap(iterable)
ImmutableMapNew ==
    \E map \in Contents :
        /\ Len(instances) < MaxInstances
        /\ instances' = Append(instances, map)
        /\ returned' = Returned("new", Len(instances) + 1, "", 0, instances,
                                Len(instances) + 1)
        /\ UNCHANGED notImmutable

\* set(key, value): mutate(map => map.set(key, value))
ImmutableMapSet ==
    \E this \in DOMAIN instances, key \in ImmutableKeys, value \in ImmutableValues :
        LET clone == mutate(this, MapSet(instances[this], key, value))
        IN  /\ Len(instances) < MaxInstances
            /\ instances' = clone.instances
            /\ returned' = Returned("set", this, key, value, instances, clone.instance)
            /\ UNCHANGED notImmutable

\* delete(key): mutate(map => map.delete(key))
ImmutableMapDelete ==
    \E this \in DOMAIN instances, key \in ImmutableKeys :
        LET clone == mutate(this, MapDelete(instances[this], key))
        IN  /\ Len(instances) < MaxInstances
            /\ instances' = clone.instances
            /\ returned' = Returned("delete", this, key, 0, instances, clone.instance)
            /\ UNCHANGED notImmutable

\* clear(): return ImmutableMap.Empty
ImmutableMapClear ==
    \E this \in DOMAIN instances :
        /\ returned' = Returned("clear", this, "", 0, instances, Empty)
        /\ UNCHANGED <<instances, notImmutable>>

----------------------------------------------------------------------------
(* simple(value, key, options) *)

\* Values of a union discriminated by `type` or by `kind`.
MatchValues ==
    [type : {"a", "b"}, kind : {"a", "b"}, foo : {"hello", "bye"}, bar : {"1", "2"}]
MatchKeys == {"type", "kind"}
\* Handlers: o => o.foo, o => o.bar.
Handlers == {"foo", "bar"}
MatchOptions == [{"a", "b"} -> Handlers]

\* What the handler under `name` returns for a value.
Handle(opts, name, value) == value[opts[name]]

\* The second handler is called whatever the discriminator.
simple_second(value, key, opts) ==
    [result |-> Handle(opts, "b", value), called |-> <<"b">>]

\* simple: opts[value[key]](value)
simple(value, key, opts) ==
    LET discriminator == value[key]
    IN  [result |-> Handle(opts, discriminator, value), called |-> <<discriminator>>]

NoMatch ==
    [value |-> [type |-> "a", kind |-> "a", foo |-> "hello", bar |-> "1"], key |-> "type",
     options |-> [n \in {"a", "b"} |-> "foo"], result |-> "", called |-> <<>>]

SimpleCalled ==
    \E value \in MatchValues, key \in MatchKeys, opts \in MatchOptions :
        /\ matched' = [value |-> value, key |-> key, options |-> opts,
                       result |-> simple(value, key, opts).result,
                       called |-> simple(value, key, opts).called]
        /\ UNCHANGED notMatch

\* Everything but the HTTP client as it is when the package was loaded.
Loaded(buses, initialValues) ==
    /\ useAsyncFunction
    /\ bus \in buses
    /\ EventBus
    /\ atomOver(initialValues)
    /\ StrictMap
    /\ ImmutableMap
    /\ matched = NoMatch

\* A client nobody calls.
IdleClient ==
    /\ rootOptions = [base |-> <<"h">>]
    /\ options = createHTTPClient(rootOptions)
    /\ IS_BROWSER = FALSE
    /\ pkg = "src/http"
    /\ calls = [c \in {"c1"} |-> IdleCall]

----------------------------------------------------------------------------
(* Inputs *)

BeforeHooks == {Hook("user")}
FailureHooks == {Hook("user"), Hook("always")} \cup {RetryBelow(k) : k \in 1..MaxAttempts}
TransformHooks == {Hook("user")}

Optional(key, values) == {EmptyObject} \cup {[k \in {key} |-> v] : v \in values}

Lifecycles ==
    {Spread(b, f) : b \in Optional("before", BeforeHooks),
                    f \in Optional("failure", FailureHooks)}

RootOptionsOver(bases) ==
    {Spread(Spread([base |-> b], t), l) :
        b \in bases, t \in Optional("transform", TransformHooks),
        l \in Optional("lifecycle", Lifecycles)}

Object == [tag |-> "object", val |-> "{\"name\":\"a\"}"]

Bases == {<<"h">>}
Paths == {<<Slash, "a">>}
Header(name, value) == [h \in {name} |-> value]

Configs ==
    { Config(Undefined, NoHeaders, EmptyObject),
      Config(Undefined, Header("authorization", "This will not overwrite"), EmptyObject),
      Config(Object, NoHeaders, EmptyObject),
      Config(Object, Header("content-type", "text/plain"), EmptyObject) }

Callers == {"c1"}

\* The state after createHTTPClient(root), for the given choices.
InitOver(roots, browsers, pkgs, callers) ==
    /\ rootOptions \in roots
    /\ options = createHTTPClient(rootOptions)
    /\ IS_BROWSER \in browsers
    /\ pkg \in pkgs
    /\ calls = [c \in callers |-> IdleCall]
    /\ Loaded({"array"}, {})

\* Some caller invokes some facade method.
InvokeOver(methods, paths, configs) ==
    \E c \in DOMAIN calls, method \in methods, path \in paths, config \in configs :
        handler(c, method, path, config)

Init == InitOver(RootOptionsOver(Bases), BOOLEAN, {"src/http"}, Callers)

Invoke == InvokeOver(Method, Paths, Configs)

BeforeSettled == \E c \in DOMAIN calls : BeforeSettles(c)
FetchSettled == \E c \in DOMAIN calls : FetchSettles(c)
FailureSettled == \E c \in DOMAIN calls : FailureSettles(c)
TransformSettled == \E c \in DOMAIN calls : TransformSettles(c)

Next ==
    \/ Invoke
    \/ BeforeSettled
    \/ FetchSettled
    \/ FailureSettled
    \/ TransformSettled

Spec == Init /\ [][Next]_vars

----------------------------------------------------------------------------
(* join over all short bases and paths, through a client with the defaults *)

SeqsUpTo(S, n) == UNION {[1..k -> S] : k \in 0..n}

JoinBases == SeqsUpTo({"h", Slash}, MaxLen)
JoinPaths == SeqsUpTo({"a", Slash}, MaxLen)

InitJoin == InitOver({[base |-> b] : b \in JoinBases}, {FALSE}, {"src/http"}, Callers)

InvokeJoin == InvokeOver({"get"}, JoinPaths, {Config(Undefined, NoHeaders, EmptyObject)})

NextJoin ==
    \/ InvokeJoin
    \/ BeforeSettled
    \/ FetchSettled
    \/ FailureSettled
    \/ TransformSettled

SpecJoin == InitJoin /\ [][NextJoin]_vars

----------------------------------------------------------------------------
(* The example client *)

ExampleRoot ==
    [base |-> <<"h">>, transform |-> Hook("json"),
     lifecycle |-> [before |-> Hook("user"), failure |-> Hook("example")]]

ExampleConfigs ==
    { Config(Object, Header("authorization", "This will not overwrite"), EmptyObject),
      Config(Object, NoHeaders, EmptyObject) }

InitExample == InitOver({ExampleRoot}, BOOLEAN, {"src/http"}, Callers)

InvokeExample == InvokeOver({"post"}, Paths, ExampleConfigs)

NextExample ==
    \/ InvokeExample
    \/ BeforeSettled
    \/ FetchSettled
    \/ FailureSettled
    \/ TransformSettled

SpecExample == InitExample /\ [][NextExample]_vars

----------------------------------------------------------------------------
(* A component that uses useAsyncFunction *)

InitHook == InitOver({[base |-> b] : b \in Bases}, {FALSE}, {"src/http"}, Callers)

NextHook ==
    \/ RunCalled
    \/ ExecuteSettled
    \/ ResetCalled

SpecHook == InitHook /\ [][NextHook]_vars

----------------------------------------------------------------------------
(* A program that uses an EventBus *)

\* Either copy of the class.
InitBus == IdleClient /\ Loaded({"array", "set"}, {})

NextBus ==
    \/ OnCalled
    \/ OffCalled
    \/ UnsubscribeCalled
    \/ EmitCalled

SpecBus == InitBus /\ [][NextBus]_vars

\* The same program with listeners that subscribe and unsubscribe while an
\* emit is calling them.
NextBusReentrant ==
    \/ OnCalled
    \/ OffCalled
    \/ UnsubscribeCalled
    \/ EmitEntered
    \/ ListenerCalled

SpecBusReentrant == InitBus /\ [][NextBusReentrant]_vars

----------------------------------------------------------------------------
(* A program that uses an atom *)

InitAtom == IdleClient /\ Loaded({"array"}, AtomValues)

NextAtom ==
    \/ GetCalled
    \/ SetCalled
    \/ SubscribeCalled
    \/ UnsubscribeRun

SpecAtom == InitAtom /\ [][NextAtom]_vars

----------------------------------------------------------------------------
(* Programs that use a StrictMap, ImmutableMaps, simple() *)

InitStructs == IdleClient /\ Loaded({"array"}, {})

NextStrictMap ==
    \/ StrictMapSet
    \/ StrictMapDelete
    \/ GetOrCalled
    \/ GetElseCalled

SpecStrictMap == InitStructs /\ [][NextStrictMap]_vars

NextImmutableMap ==
    \/ ImmutableMapNew
    \/ ImmutableMapSet
    \/ ImmutableMapDelete
    \/ ImmutableMapClear

SpecImmutableMap == InitStructs /\ [][NextImmutableMap]_vars

NextSimple == SimpleCalled

SpecSimple == InitStructs /\ [][NextSimple]_vars

----------------------------------------------------------------------------
(* Two callers on one client *)

TwoCallers == {"c1", "c2"}

ConcurrentRoots ==
    {Spread([base |-> b], l) :
        b \in Bases,
        l \in Optional("lifecycle", {[failure |-> f] : f \in {RetryBelow(2), Hook("always")}})}

InitConcurrent == InitOver(ConcurrentRoots, {FALSE}, {"src/http"}, TwoCallers)

ConcurrentConfigs ==
    { Config(Undefined, NoHeaders, EmptyObject),
      Config(Undefined, Header("authorization", "This will not overwrite"), EmptyObject) }

InvokeConcurrent == InvokeOver({"get"}, Paths, ConcurrentConfigs)

NextConcurrent ==
    \/ InvokeConcurrent
    \/ BeforeSettled
    \/ FetchSettled
    \/ FailureSettled
    \/ TransformSettled

SpecConcurrent == InitConcurrent /\ [][NextConcurrent]_vars

----------------------------------------------------------------------------
(* The request builder over bodies and headers, through a client with the defaults *)

Shape(tag) == [tag |-> tag, val |-> "bytes"]

Bodies ==
    {Undefined, Null, Object, TextBody("raw")} \cup
    {Shape(t) : t \in {"ReadableStream", "Blob", "FormData", "URLSearchParams",
                       "ArrayBufferView", "ArrayBuffer"}}

ContentTypes ==
    Optional("content-type",
             {"application/json", "text/plain", "application/json; charset=utf-8"})

UserAgents == Optional("user-agent", {"custom-agent"})

BuilderConfigs ==
    {Config(b, Spread(ct, ua), EmptyObject) :
        b \in Bodies, ct \in ContentTypes, ua \in UserAgents}

InvokeBuilder == InvokeOver({"get", "post"}, Paths, BuilderConfigs)

NextBuilder ==
    \/ InvokeBuilder
    \/ BeforeSettled
    \/ FetchSettled
    \/ FailureSettled
    \/ TransformSettled

\* The client of src/http.
InitBuilder == InitOver({[base |-> b] : b \in Bases}, BOOLEAN, {"src/http"}, Callers)

SpecBuilder == InitBuilder /\ [][NextBuilder]_vars

\* Either copy of the client.
InitLib == InitOver({[base |-> b] : b \in Bases}, BOOLEAN, {"src/http", "@lib"}, Callers)

SpecLib == InitLib /\ [][NextBuilder]_vars

\* Per-call configurations that carry entries of RequestInit, a `method` among them.
MethodEntries == {"get", "post", "delete", "TRACE"}

MethodConfigs ==
    {Config(b, NoHeaders, Spread(m, k)) :
        b \in {Undefined, Object},
        m \in Optional("method", MethodEntries),
        k \in Optional("cache", {"no-store"})}

InvokeMethod == InvokeOver(Method, Paths, MethodConfigs)

NextMethod ==
    \/ InvokeMethod
    \/ BeforeSettled
    \/ FetchSettled
    \/ FailureSettled
    \/ TransformSettled

SpecMethod == InitLib /\ [][NextMethod]_vars

\* Either copy of the client, with a failure hook that resolves to any value.
InitRetry ==
    InitOver({[base |-> b, lifecycle |-> [failure |-> Hook("any")]] : b \in Bases},
             BOOLEAN, {"src/http", "@lib"}, Callers)

InvokeRetry == InvokeOver({"get", "post"}, Paths, Configs)

NextRetry ==
    \/ InvokeRetry
    \/ BeforeSettled
    \/ FetchSettled
    \/ FailureSettled
    \/ TransformSettled

SpecRetry == InitRetry /\ [][NextRetry]_vars

\* Clients whose failure hook returns a request finitely many times: the
\* default (never), a hook that retries while count < K, and a hook that
\* decides freely, up to the number of sends explored.
LiveFailureHooks == {Hook("user")} \cup {RetryBelow(k) : k \in 1..MaxAttempts}

LiveRoots ==
    {Spread(Spread([base |-> b], t), l) :
        b \in Bases, t \in Optional("transform", TransformHooks),
        l \in Optional("lifecycle",
                       {Spread(bf, f) : bf \in Optional("before", BeforeHooks),
                                        f \in Optional("failure", LiveFailureHooks)})}

InitLive == InitOver(LiveRoots, {FALSE}, {"src/http"}, Callers)

InvokeLive == InvokeOver({"get", "post"}, Paths, Configs)

NextLive ==
    \/ InvokeLive
    \/ BeforeSettled
    \/ FetchSettled
    \/ FailureSettled
    \/ TransformSettled

\* Every awaited hook invocation and every transport send completes: each
\* await of the handler (lines 167, 170, 223, 226) is resumed once its promise
\* settles. Nothing makes a caller call.
SpecLive ==
    /\ InitLive
    /\ [][NextLive]_vars
    /\ WF_vars(BeforeSettled)
    /\ WF_vars(FetchSettled)
    /\ WF_vars(FailureSettled)
    /\ WF_vars(TransformSettled)

----------------------------------------------------------------------------
(* Properties of the retry engine and the hooks *)

Min(S) == CHOOSE x \in S : \A y \in S : x <= y
Max(S) == CHOOSE x \in S : \A y \in S : x >= y

\* The handler threw while building the request: nothing was invoked.
BuildFailed(call) == call.pc = "done" /\ call.log = <<>>

\* The caller passed no lifecycle hook to createHTTPClient.
NoLifecycleOverrides ==
    "lifecycle" \notin DOMAIN rootOptions \/ rootOptions.lifecycle = EmptyObject

\* The first send of the call was answered, with ok as given.
FirstResponseIs(call, ok) ==
    LET P == Positions(call, "send.settled")
    IN  /\ P # {}
        /\ call.log[Min(P)].result.type = "return"
        /\ call.log[Min(P)].res.ok = ok

\* Every send of the call so far was answered with a response that is not ok.
AllNonOk(call) ==
    \A i \in Positions(call, "send.settled") :
        call.log[i].result.type = "return" /\ ~call.log[i].res.ok

LastSent(call) == call.log[Max(Positions(call, "send"))].req
LastResponse(call) == call.log[Max(Positions(call, "send.settled"))].res

\* C1 as stated: every logical call invokes `before` exactly once, whatever the
\* number of retries, and before its first transport send.
C1_BeforeOnceEveryCall ==
    \A c \in DOMAIN calls :
        LET call == calls[c]
        IN  call.pc # "idle" =>
              /\ Times(call, "before") = 1
              /\ \A i \in Positions(call, "send") :
                    \E j \in Positions(call, "before.settled") : j < i

\* C1 amended: a call whose request was built invokes `before` exactly once,
\* whatever the number of retries, and `before` has settled before the first
\* send; a call whose builder threw invokes `before` zero times and sends nothing.
C1_BeforeOnceBuiltCall ==
    \A c \in DOMAIN calls :
        LET call == calls[c]
        IN  call.pc # "idle" =>
              /\ Times(call, "before") = IF BuildFailed(call) THEN 0 ELSE 1
              /\ BuildFailed(call) => Sends(call) = 0
              /\ \A i \in Positions(call, "send") :
                    \E j \in Positions(call, "before.settled") : j < i

C1_Witness ==
    \E c \in DOMAIN calls :
        /\ Sends(calls[c]) = MaxAttempts
        /\ Times(calls[c], "before") = 1
        /\ calls[c].pc = "done"

\* C2: the n-th send of a call runs with count n (1 for the first, one more per
\* retry), and the n-th invocation of the failure hook is passed count n, the
\* number of sends performed so far.
C2_AttemptCounter ==
    \A c \in DOMAIN calls :
        LET call == calls[c]
            sends == Positions(call, "send")
            fails == Positions(call, "failure")
        IN  /\ \A i \in sends :
                  call.log[i].count = Cardinality({j \in sends : j <= i})
            /\ \A i \in fails :
                  /\ call.log[i].count = Cardinality({j \in fails : j <= i})
                  /\ call.log[i].count = Cardinality({j \in sends : j < i})
            /\ call.pc \in {"fetch", "failure", "transform"} => call.count = Sends(call)

C2_Witness ==
    \E c \in DOMAIN calls : Times(calls[c], "failure") = MaxAttempts

\* C3: with a failure hook that returns the request while count < K and nothing
\* once count >= K, a call whose sends are all answered non-ok never sends or
\* consults the hook more than K times, and ends after exactly K sends and K hook
\* invocations, rejected with an HTTPClientError whose count is K.
C3_RetryBelowK ==
    \A c \in DOMAIN calls :
        LET call == calls[c]
            hook == options.lifecycle.failure
        IN  (hook.kind = "retryBelow" /\ Sends(call) >= 1 /\ AllNonOk(call)) =>
              /\ Sends(call) <= hook.K
              /\ Times(call, "failure") <= hook.K
              /\ call.pc \in {"fetch", "failure", "done"}
              /\ call.pc = "done" =>
                    /\ Sends(call) = hook.K
                    /\ Times(call, "failure") = hook.K
                    /\ call.promise.state = "rejected"
                    /\ call.promise.error.kind = "HTTPClientError"
                    /\ call.promise.error.count = hook.K

C3_Witness ==
    \E c \in DOMAIN calls :
        /\ options.lifecycle.failure = RetryBelow(MaxAttempts)
        /\ AllNonOk(calls[c])
        /\ calls[c].pc = "done"
        /\ Sends(calls[c]) = MaxAttempts

\* C4: a client built with no lifecycle overrides whose first response is not ok
\* sends once, never invokes the transformer, and rejects with an HTTPClientError
\* of count 1 carrying that request and response.
C4_DefaultNoRetry ==
    \A c \in DOMAIN calls :
        LET call == calls[c]
        IN  (NoLifecycleOverrides /\ FirstResponseIs(call, FALSE)) =>
              /\ Sends(call) = 1
              /\ Times(call, "transform") = 0
              /\ call.pc \in {"failure", "done"}
              /\ call.pc = "done" =>
                    call.promise =
                        Rejected([kind |-> "HTTPClientError", count |-> 1,
                                  request |-> LastSent(call),
                                  response |-> LastResponse(call)])

C4_Witness ==
    \E c \in DOMAIN calls :
        /\ NoLifecycleOverrides
        /\ FirstResponseIs(calls[c], FALSE)
        /\ calls[c].pc = "done"

\* C5: when the first response of a call is ok, the failure hook is never
\* invoked and the transformer is invoked exactly once, with that response.
C5_FirstResponseOk ==
    \A c \in DOMAIN calls :
        LET call == calls[c]
        IN  FirstResponseIs(call, TRUE) =>
              /\ Times(call, "failure") = 0
              /\ Times(call, "transform") = 1
              /\ \A i \in Positions(call, "transform") :
                    call.log[i].res = call.log[Min(Positions(call, "send.settled"))].res

C5_Witness ==
    \E c \in DOMAIN calls :
        /\ FirstResponseIs(calls[c], TRUE)
        /\ calls[c].promise.state = "fulfilled"

\* C6: the transformer is invoked at most once per call, directly on receiving
\* an ok response and with that response, after which nothing is sent; a call
\* rejected by the builder, `before`, the transport or the retry engine never
\* invoked it.
C6_TransformOnTerminalOk ==
    \A c \in DOMAIN calls :
        LET call == calls[c]
        IN  /\ Times(call, "transform") <= 1
            /\ \A i \in Positions(call, "transform") :
                  /\ i > 1
                  /\ call.log[i - 1].ev = "send.settled"
                  /\ call.log[i - 1].result.type = "return"
                  /\ call.log[i - 1].res.ok
                  /\ call.log[i].res = call.log[i - 1].res
                  /\ \A j \in Positions(call, "send") : j < i
            /\ (/\ call.promise.state = "rejected"
                /\ call.promise.error.kind \in
                      {"SerializationError", "HookError:before", "TransportError",
                       "HTTPClientError", "HookError:failure"})
                  => Times(call, "transform") = 0

C6_Witness ==
    \E c \in DOMAIN calls :
        /\ Sends(calls[c]) = MaxAttempts
        /\ Times(calls[c], "transform") = 1
        /\ calls[c].pc = "done"

\* C7: when the failure hook resolves to undefined, nothing more happens in the
\* call and it is rejected with an HTTPClientError carrying the number of sends
\* performed, the request of the last send and the response to it.
C7_DeclineRaisesClientError ==
    \A c \in DOMAIN calls :
        LET call == calls[c]
        IN  \A i \in Positions(call, "failure.settled") :
                call.log[i].result = Return(Val("undefined")) =>
                  /\ i = Len(call.log)
                  /\ call.pc = "done"
                  /\ call.promise =
                        Rejected([kind |-> "HTTPClientError", count |-> Sends(call),
                                  request |-> LastSent(call),
                                  response |-> LastResponse(call)])

C7_Witness ==
    \E c \in DOMAIN calls :
        /\ Sends(calls[c]) = MaxAttempts
        /\ \E i \in Positions(calls[c], "failure.settled") :
              calls[c].log[i].result = Return(Val("undefined"))

HookSettlements(call) ==
    Positions(call, "before.settled") \cup Positions(call, "failure.settled")
        \cup Positions(call, "transform.settled")

\* C8: an error thrown by `before`, `failure` or `transform` is the error the
\* call is rejected with, and nothing is sent after it.
C8_HookErrorVerbatim ==
    \A c \in DOMAIN calls :
        LET call == calls[c]
        IN  \A i \in HookSettlements(call) :
                call.log[i].result.type = "throw" =>
                  /\ i = Len(call.log)
                  /\ call.pc = "done"
                  /\ call.promise = Rejected(call.log[i].result.error)
                  /\ call.log[i].result.error.kind # "HTTPClientError"
                        => call.promise.error.kind # "HTTPClientError"

C8_Witness ==
    \E c \in DOMAIN calls :
        /\ Sends(calls[c]) = MaxAttempts
        /\ calls[c].promise = Rejected(HookError("failure"))

\* C9: when the transformer fails, the call is rejected with that failure; the
\* failure hook is not invoked for it, count stays what it was when the
\* transformer was invoked, and nothing more is sent.
C9_TransformFailure ==
    \A c \in DOMAIN calls :
        LET call == calls[c]
        IN  \A i \in Positions(call, "transform.settled") :
                call.log[i].result.type = "throw" =>
                  /\ i = Len(call.log)
                  /\ call.pc = "done"
                  /\ call.promise = Rejected(call.log[i].result.error)
                  /\ \A j \in Positions(call, "failure") : j < i - 1
                  /\ Times(call, "failure") = Sends(call) - 1
                  /\ call.count = call.log[i - 1].count
                  /\ call.count = Sends(call)

C9_Witness ==
    \E c \in DOMAIN calls :
        /\ Sends(calls[c]) = MaxAttempts
        /\ calls[c].promise = Rejected(JSONSyntaxError)

\* C10: a send that fails in the transport ends the call with the transport's
\* error: no failure hook for that attempt, no retry, no transformer; the
\* failure hook is only ever invoked on a received response that is not ok.
C10_TransportFailure ==
    \A c \in DOMAIN calls :
        LET call == calls[c]
        IN  /\ \A i \in Positions(call, "send.settled") :
                  call.log[i].result.type = "throw" =>
                    /\ i = Len(call.log)
                    /\ call.pc = "done"
                    /\ call.promise = Rejected(call.log[i].result.error)
                    /\ Times(call, "failure") = Sends(call) - 1
                    /\ Times(call, "transform") = 0
            /\ \A i \in Positions(call, "failure") :
                  /\ i > 1
                  /\ call.log[i - 1].ev = "send.settled"
                  /\ call.log[i - 1].result.type = "return"
                  /\ ~call.log[i - 1].res.ok
                  /\ call.log[i].res = call.log[i - 1].res

C10_Witness ==
    \E c \in DOMAIN calls :
        /\ Sends(calls[c]) = MaxAttempts
        /\ calls[c].promise = Rejected(TransportError)

\* C11: with a failure hook that always returns the request and only non-ok
\* responses, a call is never settled: every hook invocation is answered by a
\* further send with count one higher, up to any number of attempts explored,
\* and the hook sees the counts 1, 2, 3, ...
C11_AlwaysRetryNeverEnds ==
    \A c \in DOMAIN calls :
        LET call == calls[c]
            fails == Positions(call, "failure")
        IN  (options.lifecycle.failure.kind = "always" /\ Sends(call) >= 1
                /\ AllNonOk(call)) =>
              /\ call.pc \in {"fetch", "failure"}
              /\ call.promise = Pending
              /\ \A i \in fails : call.log[i].count = Cardinality({j \in fails : j <= i})
              /\ \A i \in Positions(call, "failure.settled") :
                    /\ i < Len(call.log)
                    /\ call.log[i + 1].ev = "send"
                    /\ call.log[i + 1].count = call.log[i].count + 1
              /\ (call.pc = "failure" /\ Sends(call) < MaxAttempts)
                    => ENABLED FailureSettles(c)

C11_Witness ==
    \E c \in DOMAIN calls :
        /\ options.lifecycle.failure.kind = "always"
        /\ AllNonOk(calls[c])
        /\ Times(calls[c], "failure") = MaxAttempts

\* C12: the first send uses the request `before` returned (a header `before`
\* set is the one sent, whatever the per-call header was); every later send uses
\* the request the failure hook just returned; `before` is not invoked again.
C12_RequestsSent ==
    \A c \in DOMAIN calls :
        LET call == calls[c]
        IN  /\ Positions(call, "before") \subseteq {1}
            /\ \A i \in Positions(call, "send") :
                  /\ i > 1
                  /\ call.log[i - 1].ev =
                        IF call.log[i].count = 1 THEN "before.settled"
                        ELSE "failure.settled"
                  /\ call.log[i - 1].result.type = "return"
                  /\ InstanceofRequest(call.log[i - 1].result.value)
                  /\ call.log[i].req = call.log[i - 1].result.value.req
            /\ \A i \in Positions(call, "send.settled") :
                  call.log[i].req = call.log[i - 1].req

C12_Witness ==
    \E c \in DOMAIN calls :
        LET call == calls[c]
            sends == Positions(call, "send")
        IN  /\ Sends(call) = MaxAttempts
            /\ HeadersHas(call.args.config.headers, "authorization")
            /\ call.log[Min(sends)].req.headers["authorization"] = "Bearer example"
            /\ call.log[Min(sends)].req.headers["authorization"]
                  # call.args.config.headers["authorization"]
            /\ call.log[Max(sends)].req # call.log[Min(sends)].req
            /\ HeadersHas(call.log[Max(sends)].req.headers, "x-retry")

\* The number of calls of `ev` that have not settled.
InFlight(call, ev) == Times(call, ev) - Times(call, ev \o ".settled")

\* C20: the steps of a call happen one after the other: `before` is the first
\* thing invoked, on the built request; a send follows a resolved `before` or
\* a resolved failure hook; the failure hook of attempt n follows the non-ok
\* response of attempt n; the transformer follows an ok response; nothing is
\* invoked while anything else is pending, so at most one send is in flight.
C20_Sequential ==
    \A c \in DOMAIN calls :
        LET call == calls[c]
            log == call.log
        IN  /\ \A i \in 1..Len(log) :
                  CASE log[i].ev = "before" -> i = 1 /\ log[i].req.id = 1
                    [] log[i].ev = "send" ->
                          /\ i > 1
                          /\ log[i - 1].ev \in {"before.settled", "failure.settled"}
                          /\ log[i - 1].result.type = "return"
                    [] log[i].ev = "failure" ->
                          /\ i > 1
                          /\ log[i - 1].ev = "send.settled"
                          /\ log[i - 1].result.type = "return"
                          /\ ~log[i - 1].res.ok
                          /\ log[i - 1].count = log[i].count
                    [] log[i].ev = "transform" ->
                          /\ i > 1
                          /\ log[i - 1].ev = "send.settled"
                          /\ log[i - 1].result.type = "return"
                          /\ log[i - 1].res.ok
                    [] OTHER ->
                          i > 1 /\ log[i].ev = log[i - 1].ev \o ".settled"
            /\ InFlight(call, "send") \in {0, 1}
            /\ InFlight(call, "before") + InFlight(call, "send")
                  + InFlight(call, "failure") + InFlight(call, "transform") \in {0, 1}

C20_Witness ==
    \E c \in DOMAIN calls :
        /\ Sends(calls[c]) = MaxAttempts
        /\ calls[c].promise.state = "fulfilled"

RECURSIVE StripTrailing(_)
\* s without the '/' characters it ends with.
StripTrailing(s) ==
    IF Len(s) > 0 /\ s[Len(s)] = Slash THEN StripTrailing(SubSeq(s, 1, Len(s) - 1)) ELSE s

RECURSIVE StripLeading(_)
\* s without the '/' characters it starts with.
StripLeading(s) ==
    IF Len(s) > 0 /\ s[1] = Slash THEN StripLeading(SubSeq(s, 2, Len(s))) ELSE s

\* The url of the request the handler built.
BuiltUrl(call) == call.log[1].req.url

\* The url is the base part, one '/', the path part.
OneSeparator(call) ==
    BuiltUrl(call) = StripTrailing(rootOptions.base) \o <<Slash>> \o StripLeading(call.args.path)

\* C13 as stated: whatever the number of '/' ending base and starting path, the
\* joined url has exactly one '/' between the base part and the path part.
C13_JoinAnySlashes ==
    \A c \in DOMAIN calls :
        Len(calls[c].log) > 0 => OneSeparator(calls[c])

\* C13 amended: when base ends with at most one '/' and path starts with at most
\* one '/' (either may be empty), the joined url has exactly one '/' between the
\* base part and the path part.
C13_JoinOneSlash ==
    \A c \in DOMAIN calls :
        LET call == calls[c]
            base == rootOptions.base
            path == call.args.path
        IN  (/\ Len(call.log) > 0
             /\ Len(base) - Len(StripTrailing(base)) <= 1
             /\ Len(path) - Len(StripLeading(path)) <= 1)
              => OneSeparator(call)

C13_Witness ==
    \E c \in DOMAIN calls :
        /\ Len(calls[c].log) > 0
        /\ rootOptions.base = <<"h", Slash>>
        /\ calls[c].args.path = <<Slash, "a">>
        /\ BuiltUrl(calls[c]) = <<"h", Slash, "a">>

\* What the caller passed.
UserBody(call) == call.args.config.body
UserHeaders(call) == call.args.config.headers

\* The caller set a Content-Type that is not exactly application/json.
OtherContentType(call) ==
    /\ HeadersHas(UserHeaders(call), "content-type")
    /\ UserHeaders(call)["content-type"] # "application/json"

\* The request the handler built and handed to `before`.
Built(call) == call.log[1].req

\* The call ended with the serialization error and nothing was invoked.
FailedToSerialize(call) ==
    /\ call.pc = "done"
    /\ call.promise = Rejected(SerializationError)
    /\ call.log = <<>>

\* C14 as stated: a supplied body that is not a body-init shape, with a
\* Content-Type other than application/json, ends the call with the
\* serialization error: no send, no failure hook, no transformer.
C14_NotBodyInitFails ==
    \A c \in DOMAIN calls :
        LET call == calls[c]
        IN  (/\ call.pc # "idle"
             /\ UserBody(call) # Undefined
             /\ ~isBodyInit(UserBody(call))
             /\ OtherContentType(call))
              => FailedToSerialize(call)

\* C14 amended: a supplied body that is neither a body-init shape nor null,
\* with a Content-Type other than application/json, ends the call with the
\* serialization error: no send, no failure hook, no transformer.
C14_NotBodyInitNorNullFails ==
    \A c \in DOMAIN calls :
        LET call == calls[c]
        IN  (/\ call.pc # "idle"
             /\ UserBody(call) # Undefined
             /\ UserBody(call) # Null
             /\ ~isBodyInit(UserBody(call))
             /\ OtherContentType(call))
              => FailedToSerialize(call)

C14_Witness ==
    \E c \in DOMAIN calls :
        /\ UserBody(calls[c]) = Object
        /\ HeadersGet(UserHeaders(calls[c]), "content-type") = "application/json; charset=utf-8"
        /\ FailedToSerialize(calls[c])

\* C15: a supplied body with no Content-Type set by the caller is sent with
\* Content-Type: application/json and as its JSON text ({name: "a"} as
\* {"name":"a"}).
C15_JSONByDefault ==
    \A c \in DOMAIN calls :
        LET call == calls[c]
        IN  (/\ call.pc # "idle"
             /\ UserBody(call) # Undefined
             /\ ~HeadersHas(UserHeaders(call), "content-type"))
              => /\ Len(call.log) > 0
                 /\ HeadersGet(Built(call).headers, "content-type") = "application/json"
                 /\ Built(call).body = TextBody(JSONStringify(UserBody(call)))
                 /\ UserBody(call) = Object
                       => Built(call).body.val = "{\"name\":\"a\"}"
                 /\ \A i \in Positions(call, "send") : call.log[i].req = Built(call)

C15_Witness ==
    \E c \in DOMAIN calls :
        /\ UserBody(calls[c]) = Object
        /\ ~HeadersHas(UserHeaders(calls[c]), "content-type")
        /\ Sends(calls[c]) = 1
        /\ LastSent(calls[c]).body = TextBody("{\"name\":\"a\"}")

\* C16: a body-init body with a Content-Type other than application/json is
\* sent as it is, and the Content-Type stays the caller's.
C16_BodyInitVerbatim ==
    \A c \in DOMAIN calls :
        LET call == calls[c]
        IN  (/\ call.pc # "idle"
             /\ isBodyInit(UserBody(call))
             /\ OtherContentType(call))
              => /\ Len(call.log) > 0
                 /\ Built(call).body = UserBody(call)
                 /\ HeadersGet(Built(call).headers, "content-type") = UserHeaders(call)["content-type"]
                 /\ \A i \in Positions(call, "send") : call.log[i].req = Built(call)

C16_Witness ==
    \E c \in DOMAIN calls :
        /\ UserBody(calls[c]) = TextBody("raw")
        /\ HeadersGet(UserHeaders(calls[c]), "content-type") = "text/plain"
        /\ Sends(calls[c]) = 1
        /\ LastSent(calls[c]).body = TextBody("raw")

\* C17: a null body with a Content-Type other than application/json is accepted
\* by the builder: no serialization error, `before` is invoked, and once it
\* resolved the request is sent.
C17_NullBodyAccepted ==
    \A c \in DOMAIN calls :
        LET call == calls[c]
        IN  (call.pc # "idle" /\ UserBody(call) = Null /\ OtherContentType(call))
              => /\ ~FailedToSerialize(call)
                 /\ Times(call, "before") = 1
                 /\ Times(call, "before.settled") = 1 => Sends(call) = 1

\* The client of src/http accepts the null body and sends it.
C17_Witness ==
    \E c \in DOMAIN calls :
        /\ pkg = "src/http"
        /\ UserBody(calls[c]) = Null
        /\ HeadersGet(UserHeaders(calls[c]), "content-type") = "text/plain"
        /\ Sends(calls[c]) = 1
        /\ LastSent(calls[c]).body = Null

\* C18: the built request carries the caller's User-Agent when there is one;
\* otherwise the default one outside a browser, and none in a browser.
C18_UserAgent ==
    \A c \in DOMAIN calls :
        LET call == calls[c]
        IN  Len(call.log) > 0 =>
              IF HeadersHas(UserHeaders(call), "user-agent")
              THEN HeadersGet(Built(call).headers, "user-agent") = UserHeaders(call)["user-agent"]
              ELSE IF IS_BROWSER
                   THEN ~HeadersHas(Built(call).headers, "user-agent")
                   ELSE HeadersGet(Built(call).headers, "user-agent") = "alistair-http/1.15.0"

C18_Witness ==
    \E c \in DOMAIN calls :
        /\ ~IS_BROWSER
        /\ Len(calls[c].log) > 0
        /\ HeadersGet(Built(calls[c]).headers, "user-agent") = "custom-agent"

\* Everything a call holds follows from what that call itself did: its sends
\* are numbered 1, 2, ... in its own order, its counter and current request
\* are those of its own last send, `before` ran once, the failure hook ran
\* once for each of its own non-ok responses, and its outcome is the outcome
\* of its own last step.
OwnHistory(call) ==
    LET sends == Positions(call, "send")
        last == call.log[Len(call.log)]
    IN  /\ \A i \in sends : call.log[i].count = Cardinality({j \in sends : j <= i})
        /\ call.pc \in {"fetch", "failure", "transform"} =>
              /\ call.count = Sends(call)
              /\ call.request = LastSent(call)
        /\ call.pc # "idle" => Times(call, "before") = 1
        /\ Times(call, "failure") =
              Cardinality({i \in Positions(call, "send.settled") :
                              /\ call.log[i].result.type = "return"
                              /\ ~call.log[i].res.ok})
        /\ Times(call, "transform") <= 1
        /\ call.pc = "done" =>
              call.promise =
                 IF last.result.type = "throw" THEN Rejected(last.result.error)
                 ELSE IF last.ev = "transform.settled" THEN Fulfilled(last.result.value)
                 ELSE Rejected(HTTPClientError(Sends(call), LastSent(call),
                                               LastResponse(call)))

\* A call waiting for its failure hook leaves the other calls free to start
\* and to send.
NobodyBlocked ==
    \A c1, c2 \in DOMAIN calls :
        (c1 # c2 /\ calls[c1].pc = "failure") =>
            /\ calls[c2].pc = "idle" => ENABLED InvokeOver({"get"}, Paths, ConcurrentConfigs)
            /\ calls[c2].pc = "before" => ENABLED BeforeSettles(c2)
            /\ calls[c2].pc = "fetch" => ENABLED FetchSettles(c2)

\* A step is the step of one call: the others stay as they were, the call's
\* own history only grows, and the configuration is not written.
OneCallMoves ==
    /\ rootOptions' = rootOptions
    /\ options' = options
    /\ \A c1, c2 \in DOMAIN calls :
          (c1 # c2 /\ calls'[c1] # calls[c1]) => calls'[c2] = calls[c2]
    /\ \A c \in DOMAIN calls :
          /\ Len(calls'[c].log) >= Len(calls[c].log)
          /\ SubSeq(calls'[c].log, 1, Len(calls[c].log)) = calls[c].log

\* C19: with several calls in flight on one client, each call's counter,
\* current request, hook counts and outcome are those of its own history alone
\* (two calls with the same arguments and the same history are in the same
\* state), the configuration is never written after construction, every step
\* changes one call only, and a call waiting in its failure hook does not keep
\* another from sending.
C19_Independent ==
    /\ [](\A c \in DOMAIN calls : OwnHistory(calls[c]))
    /\ [](\A c1, c2 \in DOMAIN calls :
            (calls[c1].args = calls[c2].args /\ calls[c1].log = calls[c2].log)
               => calls[c1] = calls[c2])
    /\ []NobodyBlocked
    /\ [][OneCallMoves]_vars

\* c1 waits in the failure hook of its first attempt while c2, with another
\* request, was retried and has its second attempt in flight.
C19_Witness ==
    /\ calls["c1"].pc = "failure"
    /\ calls["c1"].count = 1
    /\ calls["c2"].pc = "fetch"
    /\ calls["c2"].count = 2
    /\ calls["c1"].request # calls["c2"].request

----------------------------------------------------------------------------
(* Outcomes *)

\* The kinds of error a hook of the model throws.
HookErrorKinds ==
    {HookError(h).kind : h \in {"before", "failure", "transform"}} \cup {JSONSyntaxError.kind}

\* How a finished call ended, from its promise and the last thing it did.
Outcomes(call) ==
    LET last == call.log[Len(call.log)]
        e == call.promise.error
    IN  {o \in {"value", "serialization", "client", "hook", "transport"} :
           CASE o = "value" ->
                   /\ call.promise.state = "fulfilled"
                   /\ last.ev = "transform.settled"
                   /\ call.promise.value = last.result.value
             [] o = "serialization" ->
                   call.promise = Rejected(SerializationError) /\ call.log = <<>>
             [] o = "client" ->
                   /\ call.promise.state = "rejected"
                   /\ e.kind = "HTTPClientError"
                   /\ call.log # <<>> /\ last.ev = "failure.settled"
             [] o = "hook" ->
                   /\ call.promise.state = "rejected"
                   /\ e.kind \in HookErrorKinds
                   /\ call.log # <<>> /\ last.ev \in {"before.settled", "failure.settled",
                                                     "transform.settled"}
                   /\ last.result = Throw(e)
             [] o = "transport" ->
                   /\ call.promise = Rejected(TransportError)
                   /\ call.log # <<>> /\ last.ev = "send.settled"
                   /\ last.result = Throw(TransportError)}

\* C21: a finished call ended in exactly one of: the transformed value, the
\* serialization error, an HTTPClientError, an error thrown by a hook, a
\* transport error. Every non-ok response is handed to the failure hook, whose
\* settling is followed by a new send or ends the call with an error; a call
\* that returned a value returned the transformation of an ok response.
C21_Outcomes ==
    \A c \in DOMAIN calls :
        LET call == calls[c]
            log == call.log
        IN  /\ call.pc = "done" => Cardinality(Outcomes(call)) = 1
            /\ call.pc # "done" => call.promise = Pending
            /\ \A i \in Positions(call, "send.settled") :
                  (log[i].result.type = "return" /\ ~log[i].res.ok) =>
                     /\ Len(log) > i /\ log[i + 1].ev = "failure"
                     /\ log[i + 1].res = log[i].res
                     /\ Len(log) > i + 1 =>
                           /\ log[i + 2].ev = "failure.settled"
                           /\ \/ Len(log) > i + 2 /\ log[i + 3].ev = "send"
                              \/ /\ Len(log) = i + 2
                                 /\ call.pc = "done"
                                 /\ call.promise.state = "rejected"
            /\ call.promise.state = "fulfilled" =>
                  /\ LastResponse(call).ok
                  /\ call.promise.value.res = LastResponse(call)
                  /\ log[Len(log) - 1].res = LastResponse(call)

\* A call that was retried after non-ok responses and then returned a value.
C21_Witness ==
    \E c \in DOMAIN calls :
        /\ calls[c].pc = "done"
        /\ Outcomes(calls[c]) = {"value"}
        /\ Sends(calls[c]) = 2
        /\ Times(calls[c], "failure") = 1

\* C22: a call rejected with an HTTPClientError received a non-ok response to
\* its last send and consulted the failure hook on it; the error carries that
\* response, and a count that is at least 1 and the number of sends made. No
\* call whose last send got an ok response or failed in the transport is
\* rejected with one.
C22_ClientErrorOnlyAfterFailure ==
    \A c \in DOMAIN calls :
        LET call == calls[c]
            log == call.log
            e == call.promise.error
        IN  (call.promise.state = "rejected" /\ e.kind = "HTTPClientError") =>
              /\ ~e.response.ok
              /\ e.count >= 1
              /\ e.count = Sends(call)
              /\ Times(call, "failure") >= 1
              /\ Len(log) >= 3
              /\ log[Len(log)].ev = "failure.settled"
              /\ log[Len(log) - 1].ev = "failure"
              /\ log[Len(log) - 1].count = e.count
              /\ log[Len(log) - 2].ev = "send.settled"
              /\ log[Len(log) - 2].result = Return(ResponseVal(e.response))
              /\ e.response \in Responses

\* The default hook threw the error on the first response, and a counting
\* hook declined after MaxAttempts sends.
C22_Witness ==
    \E c \in DOMAIN calls :
        /\ calls[c].promise.state = "rejected"
        /\ calls[c].promise.error.kind = "HTTPClientError"
        /\ calls[c].promise.error.count = MaxAttempts
        /\ calls[c].promise.error.response.status = 429

\* The caller gave the client this option.
ProvidedTransform == "transform" \in DOMAIN rootOptions
ProvidedHook(name) ==
    "lifecycle" \in DOMAIN rootOptions /\ name \in DOMAIN rootOptions.lifecycle

C23_WitnessBeforeOnly ==
    \E c \in DOMAIN calls :
        /\ ProvidedHook("before") /\ ~ProvidedHook("failure")
        /\ calls[c].pc = "done"
        /\ calls[c].promise.error.kind = "HTTPClientError"

----------------------------------------------------------------------------
(* Backoff *)

RECURSIVE SumOver(_, _)
SumOver(f, S) ==
    IF S = {} THEN 0
    ELSE LET x == CHOOSE y \in S : TRUE IN f[x] + SumOver(f, S \ {x})

\* The seconds the call spent waiting in its failure hook so far.
Waited(call) ==
    LET P == Positions(call, "failure.settled")
    IN  SumOver([i \in P |-> sleep(options.lifecycle.failure, call.log[i].count,
                                   call.log[i].res)], P)

\* Every send so far was answered, and with a 404.
Always404(call) ==
    /\ Sends(call) >= 1
    /\ \A i \in Positions(call, "send.settled") :
          call.log[i].result.type = "return" /\ call.log[i].res.status = 404

\* C24: with the example failure hook and an endpoint that always answers 404,
\* a call makes 5 sends and no more, waits 2, 4, 8 and 16 seconds before the
\* retries, 30 seconds in all, and is rejected with an HTTPClientError of
\* count 5.
C24_ExampleBackoff ==
    \A c \in DOMAIN calls :
        LET call == calls[c]
            settled == Times(call, "failure.settled")
        IN  Always404(call) =>
              /\ Sends(call) <= 5
              /\ Waited(call) = CASE settled = 0 -> 0
                                  [] settled = 1 -> 2
                                  [] settled = 2 -> 2 + 4
                                  [] settled = 3 -> 2 + 4 + 8
                                  [] settled >= 4 -> 2 + 4 + 8 + 16
              /\ call.pc = "done" =>
                    /\ Sends(call) = 5
                    /\ Waited(call) = 30
                    /\ call.promise = Rejected(HTTPClientError(5, LastSent(call),
                                                               LastResponse(call)))
              /\ Sends(call) = 5 /\ settled = 5 => call.pc = "done"

C24_Witness ==
    \E c \in DOMAIN calls :
        /\ Always404(calls[c])
        /\ calls[c].pc = "done"
        /\ Sends(calls[c]) = 5
        /\ Waited(calls[c]) = 30
        /\ calls[c].promise.error.count = 5

----------------------------------------------------------------------------
(* useAsyncFunction *)

\* C25: useAsyncFunction has at most one execution in flight; a run called
\* while one is in flight throws without calling execute; once a run settled
\* the flag is clear, so that the next run is accepted; and state.loading is
\* true exactly while a run is in flight, whatever the order of run and reset.
C25_OneRunAndLoading ==
    /\ Len(executing) <= 1
    /\ \A i \in DOMAIN runs : runs[i].began = (runs[i].pending = 0)
    /\ isInFlight = (executing # <<>>)
    /\ state.loading = (executing # <<>>)

\* The part of C25 that is about the flag: one execution at most, a run in
\* flight makes the next run throw, and the flag is set exactly while an
\* execution is pending.
C25_OneRun ==
    /\ Len(executing) <= 1
    /\ \A i \in DOMAIN runs : runs[i].began = (runs[i].pending = 0)
    /\ isInFlight = (executing # <<>>)

\* A run was refused while another was in flight, and a later one accepted.
C25_Witness ==
    /\ Len(runs) = 3
    /\ runs[1].began /\ ~runs[2].began /\ runs[3].began
    /\ state.result.type = "error"
    /\ ~state.loading

----------------------------------------------------------------------------
(* EventBus *)

\* The listeners a sequence of calls went to, in the order of their first call.
Called == Distinct([i \in DOMAIN emitted.made |-> emitted.made[i].listener])

\* C26: emit(key, args) calls the listeners subscribed to key at that time and
\* no other, in the order they subscribed, each with args; a listener taken
\* out by off or by a function on() returned is not called until it subscribes
\* again; an off for a key or a listener that is not subscribed leaves
\* this.listeners as it was.
C26_EmitCallsSubscribers ==
    /\ [](emitted.op = "emit" =>
            /\ Called = subscribed[emitted.key]
            /\ \A i \in DOMAIN emitted.made : emitted.made[i].args = emitted.args)
    /\ [](\A key \in Keys, listener \in Listeners :
            ~Has(subscribed[key], listener) => ~Has(ListOf(listeners, key), listener))
    /\ [][(emitted'.op \in {"off", "unsubscribe"}
             /\ ~Has(subscribed[emitted'.key], emitted'.listener))
            => listeners' = listeners]_vars
    /\ [][emitted'.op \in {"off", "unsubscribe"}
            => ~Has(ListOf(listeners', emitted'.key), emitted'.listener)]_vars

\* Both listeners subscribed, l2 first; l2 was then taken out, and the emit
\* that followed called l1 only.
C26_Witness ==
    /\ emitted.op = "emit"
    /\ emitted.key = "userJoined"
    /\ emitted.made = <<[listener |-> "l1", args |-> 2]>>
    /\ <<"userJoined", "l2">> \in unsubscribers
    /\ subscribed["userLeft"] = <<"l2", "l1">>

----------------------------------------------------------------------------
(* atom *)

\* What the last set resolved to.
LastResolved == Resolved(notified.next, notified.before.value)

\* C27: on an initialized atom, a set that resolves to another value than the
\* current one (+0 and -0 being two values, NaN one) stores it and calls each
\* subscribed callback once with it; a set that resolves to the current value
\* changes nothing and calls nobody; a callback that was unsubscribed, and has
\* not subscribed since, is not called.
C27_SetNotifiesOnChange ==
    /\ (notified.op = "set" /\ notified.before.initialized) =>
          IF LastResolved # notified.before.value
          THEN /\ atomState = [initialized |-> TRUE, value |-> LastResolved]
               /\ Len(notified.made) = Cardinality(watching)
               /\ \A callback \in watching :
                     Cardinality({i \in DOMAIN notified.made :
                                     notified.made[i].callback = callback}) = 1
               /\ \A i \in DOMAIN notified.made : notified.made[i].value = LastResolved
          ELSE /\ atomState = notified.before
               /\ notified.made = <<>>
    /\ \A i \in DOMAIN notified.made : notified.made[i].callback \in watching
    /\ \A callback \in Callbacks :
          callback \notin watching => ~Has(subscriptions, callback)

\* The atom held +0 and was set to -0: g, still subscribed, was told; f, which
\* was unsubscribed, was not.
C27_Witness ==
    /\ notified.op = "set"
    /\ notified.before = [initialized |-> TRUE, value |-> "0"]
    /\ atomState.value = "-0"
    /\ notified.made = <<[callback |-> "g", value |-> "-0"]>>
    /\ unsubscribes = {"f", "g"}

----------------------------------------------------------------------------
(* StrictMap *)

\* C28 as stated: getOr returns the stored value when the key exists, without
\* calling the factory, and otherwise stores what the factory makes and
\* returns it; getElse returns the stored value when the key exists, what the
\* factory makes when it does not, and never changes the map.
C28_GetOrGetElse ==
    LET existed == got.key \in DOMAIN got.before
    IN  /\ got.op = "getOr" =>
              IF existed
              THEN /\ got.value = got.before[got.key]
                   /\ ~got.called
                   /\ strictMap = got.before
              ELSE /\ got.called
                   /\ got.value = got.or
                   /\ DOMAIN strictMap = DOMAIN got.before \cup {got.key}
                   /\ strictMap[got.key] = got.or
                   /\ \A k \in DOMAIN got.before : strictMap[k] = got.before[k]
        /\ got.op = "getElse" =>
              /\ strictMap = got.before
              /\ IF existed
                 THEN got.value = got.before[got.key] /\ ~got.called
                 ELSE got.value = got.or /\ got.called

\* The example of the class: after getOr('key', () => 42), getOr('key',
\* () => 100) returns 42.
C28_Witness ==
    /\ got.op = "getOr"
    /\ got.key = "key"
    /\ got.or = "100"
    /\ got.value = "42"
    /\ ~got.called
    /\ strictMap["key"] = "42"

----------------------------------------------------------------------------
(* ImmutableMap *)

\* What an operation makes of the contents of its receiver.
Updated(op, map, after) ==
    CASE op = "clear" -> after = <<>>
      [] op = "set" ->
            after = [k \in DOMAIN map \cup {returned.key} |->
                        IF k = returned.key THEN returned.value ELSE map[k]]
      [] op = "delete" -> after = [k \in DOMAIN map \ {returned.key} |-> map[k]]

\* set, delete and clear leave every instance there was as it was, and return
\* an instance with the updated contents.
FrameAndResult ==
    returned.op \in {"set", "delete", "clear"} =>
        /\ \A i \in DOMAIN returned.before : instances[i] = returned.before[i]
        /\ Updated(returned.op, returned.before[returned.receiver],
                   instances[returned.instance])

\* C29 as stated: set, delete and clear leave the receiver as it was and
\* return another instance than the receiver, with the updated contents;
\* ImmutableMap.Empty is always empty.
C29_NewInstance ==
    /\ FrameAndResult
    /\ returned.op \in {"set", "delete", "clear"} => returned.instance # returned.receiver
    /\ instances[Empty] = <<>>

\* C29 amended: set, delete and clear leave the receiver as it was; set and
\* delete return a new instance with the updated contents, and clear returns
\* the shared ImmutableMap.Empty, which is the receiver itself when the
\* receiver is Empty; ImmutableMap.Empty is always empty.
C29_ReceiverUnchanged ==
    /\ FrameAndResult
    /\ returned.op \in {"set", "delete"} =>
          /\ returned.instance # returned.receiver
          /\ returned.instance \notin DOMAIN returned.before
    /\ returned.op = "clear" => returned.instance = Empty
    /\ instances[Empty] = <<>>

\* set was called on Empty, the map a clear() had returned, and Empty is
\* still empty.
C29_Witness ==
    /\ returned.op = "set"
    /\ returned.receiver = Empty
    /\ Len(instances) = MaxInstances
    /\ instances[returned.instance] # <<>>
    /\ instances[Empty] = <<>>

----------------------------------------------------------------------------
(* simple *)

\* C30: simple(value, key, options) returns what options[value[key]] returns
\* for value, and calls that handler only.
C30_SimpleCallsOneHandler ==
    matched.called # <<>> =>
        /\ matched.called = <<matched.value[matched.key]>>
        /\ matched.result =
              IF matched.options[matched.value[matched.key]] = "foo"
              THEN matched.value.foo ELSE matched.value.bar

\* The test of the package: {type: 'a', foo: 'hello'} matched on 'type' with
\* {a: o => o.foo, b: o => o.bar} gives 'hello'.
C30_Witness ==
    /\ matched.called = <<"a">>
    /\ matched.key = "type"
    /\ matched.value.type = "a" /\ matched.value.foo = "hello"
    /\ matched.options = [n \in {"a", "b"} |-> IF n = "a" THEN "foo" ELSE "bar"]
    /\ matched.result = "hello"

\* C31: a supplied body with the caller's Content-Type exactly
\* application/json is sent as its JSON text whatever its shape (the string
\* raw as "raw" in quotes) and the Content-Type stays application/json; with no
\* body (undefined) the request has no body and no Content-Type is added.
C31_ExplicitJSONAndNoBody ==
    \A c \in DOMAIN calls :
        LET call == calls[c]
        IN  /\ (/\ call.pc # "idle"
                /\ UserBody(call) # Undefined
                /\ HeadersGet(UserHeaders(call), "content-type") = "application/json")
                 => /\ Len(call.log) > 0
                    /\ Built(call).body = TextBody(JSONStringify(UserBody(call)))
                    /\ UserBody(call) = TextBody("raw")
                          => Built(call).body.val = "\"raw\""
                    /\ HeadersGet(Built(call).headers, "content-type") = "application/json"
                    /\ \A i \in Positions(call, "send") : call.log[i].req = Built(call)
            /\ (call.pc # "idle" /\ UserBody(call) = Undefined)
                 => /\ Len(call.log) > 0
                    /\ Built(call).body = Undefined
                    /\ HeadersGet(Built(call).headers, "content-type")
                          = HeadersGet(UserHeaders(call), "content-type")
                    /\ \A i \in Positions(call, "send") : call.log[i].req = Built(call)

C31_Witness ==
    \E c \in DOMAIN calls :
        /\ UserBody(calls[c]) = TextBody("raw")
        /\ HeadersGet(UserHeaders(calls[c]), "content-type") = "application/json"
        /\ Sends(calls[c]) = 1
        /\ LastSent(calls[c]).body = TextBody("\"raw\"")
        /\ HeadersGet(LastSent(calls[c]).headers, "content-type") = "application/json"

\* The other case of C31: a call without a body was sent without a body and
\* without a Content-Type.
C31_WitnessNoBody ==
    \E c \in DOMAIN calls :
        /\ calls[c].pc # "idle"
        /\ UserBody(calls[c]) = Undefined
        /\ ~HeadersHas(UserHeaders(calls[c]), "content-type")
        /\ Sends(calls[c]) = 1
        /\ LastSent(calls[c]).body = Undefined
        /\ ~HeadersHas(LastSent(calls[c]).headers, "content-type")

\* C32: the request a facade method hands to `before` carries that method's
\* verb, for each of the seven methods and whatever the per-call configuration
\* holds: a `method` entry of the configuration never wins.
C32_FacadeVerb ==
    \A c \in DOMAIN calls :
        LET call == calls[c]
        IN  call.pc # "idle"
              => /\ call.args.method \in Method
                 /\ Len(call.log) > 0
                 /\ call.log[1].ev = "before"
                 /\ Built(call).method = call.args.method
                 /\ \A i \in Positions(call, "send") : call.log[i].req.method = call.args.method

C32_Witness ==
    \E c \in DOMAIN calls :
        /\ "method" \in DOMAIN calls[c].args.config.init
        /\ calls[c].args.config.init.method = "post"
        /\ calls[c].args.method = "delete"
        /\ Sends(calls[c]) = 1
        /\ Built(calls[c]).method = "delete"

\* The retry as an explicit loop with an accumulating attempt counter:
\*   count = 1; for (;;) { response = await fetch(request);
\*     if (response.ok) return response;
\*     failure = await failure(count, request, response);
\*     if (!(failure instanceof Request)) throw new HTTPClientError(count, request, response);
\*     request = failure; count += 1 }
\* LoopStart is the loop entered with a request, LoopStep one settlement of an
\* awaited fetch or failure hook, LoopOver the loop fed a sequence of settlements.
LoopTrace(ev, count, request, response) ==
    [ev |-> ev, count |-> count, req |-> request, res |-> response]

LoopStart(request) ==
    [pc |-> "fetch", count |-> 1, request |-> request, response |-> NoResponse,
     trace |-> <<LoopTrace("send", 1, request, NoResponse)>>, outcome |-> NoResult]

LoopStep(st, r) ==
    CASE st.pc = "fetch" ->
            IF r.type = "throw" THEN [st EXCEPT !.pc = "ended", !.outcome = Throw(r.error)]
            ELSE IF r.value.res.ok
                 THEN [st EXCEPT !.pc = "ended", !.outcome = Return(ResponseVal(r.value.res))]
                 ELSE [st EXCEPT !.pc = "failure", !.response = r.value.res,
                                 !.trace = Append(@, LoopTrace("failure", st.count, st.request,
                                                               r.value.res))]
      [] st.pc = "failure" ->
            IF r.type = "throw" THEN [st EXCEPT !.pc = "ended", !.outcome = Throw(r.error)]
            ELSE IF InstanceofRequest(r.value)
                 THEN [st EXCEPT !.pc = "fetch", !.count = @ + 1, !.request = r.value.req,
                                 !.trace = Append(@, LoopTrace("send", st.count + 1, r.value.req,
                                                               NoResponse))]
                 ELSE [st EXCEPT !.pc = "ended",
                                 !.outcome = Throw(HTTPClientError(st.count, st.request,
                                                                   st.response))]
      [] OTHER -> [st EXCEPT !.pc = "overrun"]

RECURSIVE LoopOver(_, _)
LoopOver(st, script) ==
    IF script = <<>> THEN st ELSE LoopOver(LoopStep(st, Head(script)), Tail(script))

\* What the recursive run of a call did: the settlements it awaited, in order,
\* and the sends and failure-hook calls it made, with their arguments.
RunEvent(e) == e.ev \in {"send", "failure"}
RunSettlement(e) == e.ev \in {"send.settled", "failure.settled"}

RunScript(call) ==
    LET settled == SelectSeq(call.log, RunSettlement)
    IN  [i \in 1..Len(settled) |-> settled[i].result]

RunTrace(call) ==
    LET made == SelectSeq(call.log, RunEvent)
    IN  [i \in 1..Len(made) |->
            LoopTrace(made[i].ev, made[i].count, made[i].req, made[i].res)]

\* The request run(1, request) was entered with: what `before` resolved to.
Entered(call) == call.log[Min(Positions(call, "before.settled"))].result.value.req

\* The terminal outcome of the recursive run: the response it returned (the one
\* handed to the transformer) or the error it threw (the one the call rejected with).
RunEnded(call) ==
    \/ Times(call, "transform") > 0
    \/ /\ call.pc = "done"
       /\ call.log[Len(call.log)].ev \in {"send.settled", "failure.settled"}

RunOutcome(call) ==
    IF Times(call, "transform") > 0
    THEN Return(ResponseVal(call.log[Min(Positions(call, "transform"))].res))
    ELSE Throw(call.promise.error)

\* C33: the recursive run behaves as the explicit loop with an accumulating
\* attempt counter: for every sequence of transport responses and failure-hook
\* decisions both make the same sends, call the failure hook with the same
\* (count, request, response), and end with the same outcome.
C33_RunIsLoop ==
    \A c \in DOMAIN calls :
        LET call == calls[c]
        IN  Sends(call) > 0 =>
              LET st == LoopOver(LoopStart(Entered(call)), RunScript(call))
              IN  /\ st.trace = RunTrace(call)
                  /\ st.pc # "overrun"
                  /\ (st.pc = "ended") = RunEnded(call)
                  /\ st.pc = "ended" => st.outcome = RunOutcome(call)
                  /\ st.pc # "ended" => st.pc = call.pc /\ st.count = call.count
                                          /\ st.request = call.request

C33_Witness ==
    \E c \in DOMAIN calls :
        /\ Sends(calls[c]) = 3
        /\ Times(calls[c], "failure") = 3
        /\ calls[c].pc = "done"
        /\ calls[c].promise.state = "rejected"
        /\ calls[c].promise.error.kind = "HTTPClientError"
        /\ calls[c].promise.error.count = 3
        /\ \E i, j \in Positions(calls[c], "send") : calls[c].log[i].req # calls[c].log[j].req

\* The other ending of C33: a run that returned a response after a retry.
C33_WitnessReturned ==
    \E c \in DOMAIN calls :
        /\ Sends(calls[c]) = 2
        /\ Times(calls[c], "transform") = 1
        /\ LastResponse(calls[c]).ok

\* The failure hook resolved, at place i of the log, to this value.
ResolvedTo(call, i) == call.log[i].result.value

\* The value is a Request instance.
IsRequest(v) == v.tag = "Request" /\ v.req # NoRequest

\* C34: a retry happens only when the failure hook resolves to a Request: any
\* other resolved value (undefined, null, or a value that is not a Request,
\* truthy or not) declines, and the call ends with an HTTPClientError that
\* carries the current count, with no further send.
C34_OnlyRequestRetries ==
    \A c \in DOMAIN calls :
        LET call == calls[c]
        IN  /\ \A i \in Positions(call, "failure.settled") :
                  (call.log[i].result.type = "return" /\ ~IsRequest(ResolvedTo(call, i)))
                    => /\ i = Len(call.log)
                       /\ call.pc = "done"
                       /\ call.promise = Rejected(HTTPClientError(call.log[i].count,
                                                     call.log[i].req, call.log[i].res))
                       /\ call.log[i].count = Sends(call)
            /\ \A j \in Positions(call, "send") :
                  call.log[j].count > 1
                    => /\ call.log[j - 1].ev = "failure.settled"
                       /\ call.log[j - 1].result.type = "return"
                       /\ IsRequest(ResolvedTo(call, j - 1))
                       /\ call.log[j].req = ResolvedTo(call, j - 1).req

C34_Witness ==
    \E c \in DOMAIN calls :
        LET call == calls[c]
        IN  /\ pkg = "@lib"
            /\ Sends(call) = 2
            /\ call.pc = "done"
            /\ call.log[Len(call.log)].ev = "failure.settled"
            /\ ResolvedTo(call, Len(call.log)).tag = "Response"
            /\ call.promise.state = "rejected"
            /\ call.promise.error.kind = "HTTPClientError"
            /\ call.promise.error.count = 2

\* The falsy case of C34, for the client of src/http.
C34_WitnessFalsy ==
    \E c \in DOMAIN calls :
        LET call == calls[c]
        IN  /\ pkg = "src/http"
            /\ call.pc = "done"
            /\ Sends(call) = 1
            /\ call.log[Len(call.log)].ev = "failure.settled"
            /\ ResolvedTo(call, Len(call.log)).tag = "false"
            /\ call.promise.error.kind = "HTTPClientError"

\* The responses the call received that were not ok.
NonOkReceived(call) ==
    {i \in Positions(call, "send.settled") :
        call.log[i].result.type = "return" /\ ~call.log[i].res.ok}

\* C35: in every reachable state of a call the failure hook was invoked as
\* many times as non-ok responses were received, the sends are the
\* failure-hook invocations or one more, and `before` was invoked at least
\* once if anything was sent.
C35_Counts ==
    \A c \in DOMAIN calls :
        LET call == calls[c]
        IN  /\ Times(call, "failure") = Cardinality(NonOkReceived(call))
            /\ Sends(call) - Times(call, "failure") \in {0, 1}
            /\ Sends(call) >= 1 => Times(call, "before") >= 1

\* A retried call between a send and its answer, and one just answered.
C35_Witness ==
    \E c \in DOMAIN calls :
        /\ Sends(calls[c]) = 3
        /\ Times(calls[c], "failure") = 2
        /\ Cardinality(NonOkReceived(calls[c])) = 2
        /\ calls[c].pc = "fetch"

C35_WitnessAnswered ==
    \E c \in DOMAIN calls :
        /\ Sends(calls[c]) = 3
        /\ Times(calls[c], "failure") = 3
        /\ calls[c].pc = "failure"

\* The call ended with the transformed value or with an error.
Terminated(call) ==
    /\ call.pc = "done"
    /\ \/ /\ call.promise.state = "fulfilled"
          /\ Times(call, "transform.settled") = 1
          /\ call.promise.value = call.log[Len(call.log)].result.value
       \/ call.promise.state = "rejected"

\* C36: when every hook invocation and every transport send completes, and
\* the failure hook returns a request only finitely many times, a call that
\* was made eventually ends, with the transformed value or with an error.
C36_Terminates ==
    \A c \in Callers : (calls[c].pc # "idle") ~> Terminated(calls[c])

C36_Witness ==
    \E c \in DOMAIN calls :
        /\ Terminated(calls[c])
        /\ Sends(calls[c]) = MaxAttempts
        /\ Times(calls[c], "failure") = MaxAttempts - 1
        /\ calls[c].promise.state = "fulfilled"

\* C37: after any sequence of on, off and emit, a listener that unsubscribes
\* itself or another one during the emit included, no key of this.listeners
\* holds an empty collection: a key is there exactly when a listener is
\* subscribed to it.
C37_NoEmptyKey ==
    \A key \in Keys :
        /\ key \in DOMAIN listeners => listeners[key] # <<>>
        /\ key \in DOMAIN listeners <=> subscribed[key] # <<>>

\* A listener took the last listener of the key out while emit was calling it.
C37_Witness ==
    /\ emitted.op = "listener"
    /\ emitted.made[1].do = "off"
    /\ emitted.made[1].key = emitted.key
    /\ emitted.made[1].listener = emitted.listener
    /\ emitted.key \notin DOMAIN listeners
    /\ \E other \in Keys : other \in DOMAIN listeners

\* A listener took another listener out, and the loop of emit goes on.
C37_WitnessOther ==
    /\ emitted.op = "listener"
    /\ emitted.made[1].do = "off"
    /\ emitted.made[1].key = emitted.key
    /\ emitted.made[1].listener # emitted.listener
    /\ emitting.active

\* The last operation was a get or a set of an atom that was uninitialized.
OnUninitialized(ops) == notified.op \in ops /\ ~notified.before.initialized

\* C38: for an atom created without an initial value get throws 'Cannot read
\* an atom that is uninitialized', and set throws too (it reads the current
\* value first), leaves the atom uninitialized and notifies no subscriber: no
\* sequence of set calls makes such an atom readable.
C38_UninitializedStays ==
    /\ [](/\ OnUninitialized({"get", "get throws"})
             => /\ notified.op = "get throws"
                /\ notified.next.value = "Cannot read an atom that is uninitialized"
          /\ OnUninitialized({"set", "set throws"})
             => /\ notified.op = "set throws"
                /\ notified.made = <<>>
                /\ atomState = Uninitialized
          /\ notified.op \in {"get throws", "set throws"} => ~notified.before.initialized)
    /\ [][~atomState.initialized => ~atomState'.initialized]_vars

C38_Witness ==
    /\ notified.op = "set throws"
    /\ notified.next \in {Value("1"), Updater("negate")}
    /\ subscriptions # <<>>
    /\ ~atomState.initialized

\* The other operation of C38: a get of the uninitialized atom threw.
C38_WitnessGet ==
    /\ notified.op = "get throws"
    /\ ~atomState.initialized

====
